---- MODULE Spec2Model ----
(***************************************************************************)
(* A model of the virtual-server reconciler of k8s-bigip-ctlr              *)
(* (src/src/virtualServer/virtualServer.go): the registry of virtual       *)
(* server declarations, the node cache, the ConfigMap / Service /          *)
(* Endpoints / Node handlers and the emission of the configuration.        *)
(*                                                                         *)
(* Go strings are modelled as tuples of byte values, so that string        *)
(* comparison (sort.Strings, VirtualServerConfigs.Less), concatenation     *)
(* and strconv.Itoa are computed as the code computes them.  A Go slice is *)
(* a record [isNil, elems]: a nil slice and an empty slice differ, as they *)
(* do for reflect.DeepEqual and for json.Marshal.                          *)
(***************************************************************************)
EXTENDS Integers, Sequences, FiniteSets, TLC

(***************************************************************************)
(* Strings                                                                 *)
(***************************************************************************)
\* "foo", "bar": the service names of the tests
SFoo == <<102, 111, 111>>
SBar == <<98, 97, 114>>
\* "ns" (the watched namespace) and "xs" (another one)
SDefault == <<110, 115>>
SWrongNs == <<120, 115>>
\* the port names "p0", "p1"
SPort0 == <<112, 48>>
SPort1 == <<112, 49>>

\* Go's < on strings: bytewise lexicographic order
StrLess(a, b) ==
    \E i \in 1..Len(b) :
        /\ i <= Len(a) + 1
        /\ \A j \in 1..(i - 1) : a[j] = b[j]
        /\ (i = Len(a) + 1 \/ a[i] < b[i])

\* sort.Strings: ascending in Go's string order (duplicates kept)
RECURSIVE SortStrings(_)
SortStrings(s) ==
    IF s = <<>> THEN <<>>
    ELSE LET x == Head(s)
             rest == SortStrings(Tail(s))
         IN  SelectSeq(rest, LAMBDA e : StrLess(e, x)) \o <<x>>
                 \o SelectSeq(rest, LAMBDA e : ~StrLess(e, x))

\* strconv.Itoa for a non-negative number: its decimal digits
RECURSIVE Itoa(_)
Itoa(n) ==
    IF n < 10 THEN <<48 + n>> ELSE Itoa(n \div 10) \o <<48 + (n % 10)>>

\* the pod addresses "1.<n>" and the node addresses "7.<n>"
Ip(n) == <<49, 46>> \o Itoa(n)
NodeIp(n) == <<55, 46>> \o Itoa(n)

\* a Go []string: nil, or a (possibly empty) sequence
NilSlice == [isNil |-> TRUE, elems |-> <<>>]
MkSlice(s) == [isNil |-> FALSE, elems |-> s]

(***************************************************************************)
(* Configuration set at startup                                            *)
(***************************************************************************)
\* SetNamespace: the watched namespace
namespace == SDefault

\* cache.MetaNamespaceKeyFunc and the handlers' namespace + "/" + serviceName
StoreKey(ns, name) == ns \o <<47>> \o name

\* serviceKey{ServiceName, ServicePort, Namespace}
serviceKey(name, port, ns) ==
    [ServiceName |-> name, ServicePort |-> port, Namespace |-> ns]

(***************************************************************************)
(* The objects delivered by the event streams                              *)
(***************************************************************************)
\* The Data map of a ConfigMap: whether it has the schema and data keys,
\* whether data is well-formed JSON, whether it validates against the schema,
\* and the fields of the declaration it carries.
Payload(name, port, mode) ==
    [hasSchema |-> TRUE, hasData |-> TRUE, wellFormed |-> TRUE, valid |-> TRUE,
     ServiceName |-> name, ServicePort |-> port, Mode |-> mode]
configmapFoo == Payload(SFoo, 80, "http")
configmapFooTcp == Payload(SFoo, 80, "tcp")
configmapFoo8080 == Payload(SFoo, 8080, "http")
configmapBar == Payload(SBar, 80, "http")
configmapInvalid == [configmapFoo EXCEPT !.valid = FALSE]

newConfigMap(id, ns, keys) == [Name |-> id, Namespace |-> ns, Data |-> keys]

newServicePort(port, name, nodePort) ==
    [Port |-> port, Name |-> name, NodePort |-> nodePort]
newService(id, ns, serviceType, portSpecList) ==
    [Name |-> id, Namespace |-> ns, Type |-> serviceType, Ports |-> portSpecList]

EndpointPort(name, port) == [Name |-> name, Port |-> port]
EndpointSubset(ready, notReady, ports) ==
    [Addresses |-> ready, NotReadyAddresses |-> notReady, Ports |-> ports]
newEndpoints(svcName, ns, subsets) ==
    [Name |-> svcName, Namespace |-> ns, Subsets |-> subsets]

NodeAddress(type, address) == [Type |-> type, Address |-> address]
newNode(unsched, addresses) ==
    [Unschedulable |-> unsched, Addresses |-> addresses]

(***************************************************************************)
(* parseVirtualServerConfig                                                *)
(***************************************************************************)
\* json.Unmarshal into a zero VirtualServerConfig: the fields the payload does
\* not carry keep Go's zero values (PoolMemberPort 0, PoolMemberAddrs nil).
ZeroCfg ==
    [ServiceName |-> <<>>, ServicePort |-> 0, PoolMemberPort |-> 0,
     PoolMemberAddrs |-> NilSlice, VirtualServerName |-> <<>>, Mode |-> ""]

\* a parse that skips the key tests and the schema validation
parseUnchecked(cm) ==
    [err |-> "",
     cfg |-> [ZeroCfg EXCEPT !.ServiceName = cm.Data.ServiceName,
                             !.ServicePort = cm.Data.ServicePort,
                             !.Mode = cm.Data.Mode]]

parseVirtualServerConfig(cm) ==
    LET d == cm.Data IN
    IF ~d.hasSchema THEN [err |-> "does not contain schema key", cfg |-> ZeroCfg]
    ELSE IF ~d.hasData THEN [err |-> "does not contain data key", cfg |-> ZeroCfg]
    ELSE IF ~d.wellFormed THEN [err |-> "json", cfg |-> ZeroCfg]
    ELSE IF ~d.valid THEN [err |-> "configMap is not valid", cfg |-> ZeroCfg]
    ELSE [err |-> "",
          cfg |-> [ZeroCfg EXCEPT !.ServiceName = d.ServiceName,
                                  !.ServicePort = d.ServicePort,
                                  !.Mode = d.Mode]]

(***************************************************************************)
(* Stores                                                                  *)
(***************************************************************************)
\* EventStore.GetByKey: the item stored under key, if any
GetByKey(store, key) ==
    IF key \in DOMAIN store THEN [found |-> TRUE, item |-> store[key]]
    ELSE [found |-> FALSE, item |-> <<>>]

\* a store (or map) with key k set to v, and with key k removed
MapPut(f, k, v) == [x \in (DOMAIN f) \cup {k} |-> IF x = k THEN v ELSE f[x]]
MapDel(f, k) == [x \in (DOMAIN f) \ {k} |-> f[x]]
EmptyMap == [x \in {} |-> <<>>]

(***************************************************************************)
(* getEndpointsForService, getNodeAddresses                                *)
(***************************************************************************)
RECURSIVE Flatten(_)
Flatten(ss) == IF ss = <<>> THEN <<>> ELSE Head(ss) \o Flatten(Tail(ss))

\* the "<ip>:<port>" strings one subset contributes for the port name
SubsetIpPorts(portName, subset) ==
    Flatten([i \in 1..Len(subset.Ports) |->
        IF portName = subset.Ports[i].Name
        THEN [j \in 1..Len(subset.Addresses) |->
                 subset.Addresses[j] \o <<58>> \o Itoa(subset.Ports[i].Port)]
        ELSE <<>>])

\* getEndpointsForService without the sort of line 312
getEndpointsUnsorted(portName, eps) ==
    MkSlice(Flatten([i \in 1..Len(eps.Subsets) |->
                        SubsetIpPorts(portName, eps.Subsets[i])]))

getEndpointsForService(portName, eps) ==
    LET ipPorts == Flatten([i \in 1..Len(eps.Subsets) |->
                               SubsetIpPorts(portName, eps.Subsets[i])])
    IN  MkSlice(IF Len(ipPorts) # 0 THEN SortStrings(ipPorts) ELSE ipPorts)

\* the test of line 707 left out: the addresses of the configured type of a
\* node, schedulable or not
NodeAddrsAnyNode(node, addrType) ==
    LET sel == SelectSeq(node.Addresses, LAMBDA a : a.Type = addrType)
    IN  [i \in 1..Len(sel) |-> sel[i].Address]

\* the addresses of the configured type of one node, none if unschedulable
NodeAddrs(node, addrType) ==
    IF node.Unschedulable THEN <<>>
    ELSE LET sel == SelectSeq(node.Addresses, LAMBDA a : a.Type = addrType)
         IN  [i \in 1..Len(sel) |-> sel[i].Address]

getNodeAddresses(nodes, nodeInternal) ==
    LET addrType == IF nodeInternal THEN "InternalIP" ELSE "ExternalIP"
    IN  Flatten([i \in 1..Len(nodes) |-> NodeAddrs(nodes[i], addrType)])

(***************************************************************************)
(* processService                                                          *)
(***************************************************************************)
\* a Deleted case that removes the entry of the port instead of marking it
ServicePortStepRemove(acc, svc, portSpec, changeType, nodePortMode, endptStore, nodes) ==
    IF changeType = "Deleted"
    THEN [acc EXCEPT !.m = MapDel(acc.m, serviceKey(svc.Name, portSpec.Port,
                                                     namespace)),
                     !.upd = TRUE]
    ELSE acc

\* a port step that resolves nothing on Added, Replaced and Updated
ServicePortStepNoEndpoints(acc, svc, portSpec, changeType, nodePortMode, endptStore, nodes) ==
    LET k == serviceKey(svc.Name, portSpec.Port, namespace)
    IN  IF k \notin DOMAIN acc.m THEN acc
        ELSE IF changeType = "Deleted"
        THEN [m |-> [acc.m EXCEPT ![k].PoolMemberPort = -1,
                                  ![k].PoolMemberAddrs = NilSlice],
              rmvd |-> acc.rmvd \ {portSpec.Port}, upd |-> TRUE]
        ELSE [acc EXCEPT !.rmvd = acc.rmvd \ {portSpec.Port}]

\* the entry of one port of the changed Service (lines 360-395); acc carries
\* the registry m, the ports still in rmvdPortsMap and updateConfig
ServicePortStep(acc, svc, portSpec, changeType, nodePortMode, endptStore, nodes) ==
    LET k == serviceKey(svc.Name, portSpec.Port, namespace)
        item == GetByKey(endptStore, StoreKey(namespace, svc.Name))
    IN  IF k \notin DOMAIN acc.m THEN acc
        ELSE LET rm == acc.rmvd \ {portSpec.Port} IN
             IF changeType = "Deleted"
             THEN [m |-> [acc.m EXCEPT ![k].PoolMemberPort = -1,
                                       ![k].PoolMemberAddrs = NilSlice],
                   rmvd |-> rm, upd |-> TRUE]
             ELSE IF nodePortMode
             THEN IF svc.Type = "NodePort"
                  THEN [m |-> [acc.m EXCEPT ![k].PoolMemberPort = portSpec.NodePort,
                                            ![k].PoolMemberAddrs = nodes],
                        rmvd |-> rm, upd |-> TRUE]
                  ELSE [acc EXCEPT !.rmvd = rm]
             ELSE IF item.found
                  THEN [m |-> [acc.m EXCEPT
                                 ![k].PoolMemberPort = 0,
                                 ![k].PoolMemberAddrs =
                                     getEndpointsForService(portSpec.Name, item.item)],
                        rmvd |-> rm, upd |-> TRUE]
                  ELSE [acc EXCEPT !.rmvd = rm]

RECURSIVE ServicePortsLoop(_, _, _, _, _, _, _)
ServicePortsLoop(acc, svc, i, changeType, nodePortMode, endptStore, nodes) ==
    IF i > Len(svc.Ports) THEN acc
    ELSE ServicePortsLoop(
             ServicePortStep(acc, svc, svc.Ports[i], changeType, nodePortMode,
                             endptStore, nodes),
             svc, i + 1, changeType, nodePortMode, endptStore, nodes)

\* the loop of lines 397-403 left out
KeepRemoved(acc, serviceName) == [m |-> acc.m, ret |-> acc.upd]

\* lines 397-403: the ports left in rmvdPortsMap are marked inactive
RemovedPorts(acc, serviceName) ==
    LET ks == {k \in DOMAIN acc.m :
                  /\ k.ServiceName = serviceName
                  /\ k.Namespace = namespace
                  /\ k.ServicePort \in acc.rmvd}
    IN  [m |-> [k \in DOMAIN acc.m |->
                   IF k \in ks
                   THEN [acc.m[k] EXCEPT !.PoolMemberPort = -1,
                                         !.PoolMemberAddrs = NilSlice]
                   ELSE acc.m[k]],
         ret |-> acc.upd \/ ks # {}]

\* processService without the namespace test of lines 351-354
processServiceAnyNamespace(m, changeType, old, new, nodePortMode, endptStore, nodes) ==
    LET svc == IF changeType = "Deleted" THEN old ELSE new
        rmvdPortsMap == IF changeType = "Updated"
                        THEN {old.Ports[i].Port : i \in 1..Len(old.Ports)}
                        ELSE {}
    IN  RemovedPorts(
            ServicePortsLoop([m |-> m, rmvd |-> rmvdPortsMap, upd |-> FALSE],
                             svc, 1, changeType, nodePortMode, endptStore, nodes),
            svc.Name)

\* processService for the registry m; old and new are the ChangedObject's
\* fields (a Replaced item is passed as new); nodes is what getNodesFromCache
\* returns.  The result is the registry and the returned flag.
processService(m, changeType, old, new, nodePortMode, endptStore, nodes) ==
    LET svc == IF changeType = "Deleted" THEN old ELSE new
        rmvdPortsMap == IF changeType = "Updated"
                        THEN {old.Ports[i].Port : i \in 1..Len(old.Ports)}
                        ELSE {}
    IN  IF svc.Namespace # namespace THEN [m |-> m, ret |-> FALSE]
        ELSE RemovedPorts(
                 ServicePortsLoop([m |-> m, rmvd |-> rmvdPortsMap, upd |-> FALSE],
                                  svc, 1, changeType, nodePortMode, endptStore, nodes),
                 svc.Name)

(***************************************************************************)
(* processConfigMap                                                        *)
(***************************************************************************)
\* kubeClient.Core().Services(namespace).Get(serviceName) against the
\* Services the API server holds (keyed "<namespace>/<name>")
GetService(kube, serviceName) == GetByKey(kube, StoreKey(namespace, serviceName))

\* lines 459-493: the backend of a freshly parsed declaration, resolved from
\* the fetched Service (svc, when svcFound) and what getNodesFromCache
\* (NodePort mode) or the endpoints store (Cluster mode) returned
ResolveBackend(cfg, svcFound, svc, nodePortMode, endptStore, nodes) ==
    LET matching == IF svcFound
                    THEN SelectSeq(svc.Ports, LAMBDA p : p.Port = cfg.ServicePort)
                    ELSE <<>>
        portSpec == matching[Len(matching)]
        item == GetByKey(endptStore, StoreKey(namespace, cfg.ServiceName))
    IN  IF ~svcFound \/ matching = <<>> THEN cfg
        ELSE IF nodePortMode
        THEN IF svc.Type = "NodePort"
             THEN [cfg EXCEPT !.PoolMemberPort = portSpec.NodePort,
                              !.PoolMemberAddrs = nodes]
             ELSE cfg
        ELSE IF item.found
             THEN [cfg EXCEPT !.PoolMemberPort = 0,
                              !.PoolMemberAddrs =
                                  getEndpointsForService(portSpec.Name, item.item)]
             ELSE cfg

\* backendChange left false
NoBackendChange(changeType, oldCm, cfg) == FALSE

\* lines 495-510: whether an Updated ConfigMap changed its backend
BackendChange(changeType, oldCm, cfg) ==
    LET oldParsed == parseVirtualServerConfig(oldCm) IN
    /\ changeType = "Updated"
    /\ oldParsed.err = ""
    /\ \/ oldParsed.cfg.ServiceName # cfg.ServiceName
       \/ oldParsed.cfg.ServicePort # cfg.ServicePort

\* StoreCfg keeping the key of the old declaration on a backend change
StoreCfgUnderOldKey(m, changeType, oldCm, cm, cfg) ==
    LET oldCfg == parseVirtualServerConfig(oldCm).cfg
        k == IF BackendChange(changeType, oldCm, cfg)
             THEN serviceKey(oldCfg.ServiceName, oldCfg.ServicePort, namespace)
             ELSE serviceKey(cfg.ServiceName, cfg.ServicePort, namespace)
        name == namespace \o <<95>> \o cm.Name
    IN  MapPut(m, k, [cfg EXCEPT !.VirtualServerName = name])

\* StoreCfg keeping the declaration already stored under the key
StoreCfgIfAbsent(m, changeType, oldCm, cm, cfg) ==
    IF serviceKey(cfg.ServiceName, cfg.ServicePort, namespace) \in DOMAIN m
    THEN m
    ELSE MapPut(m, serviceKey(cfg.ServiceName, cfg.ServicePort, namespace),
                [cfg EXCEPT !.VirtualServerName = namespace \o <<95>> \o cm.Name])

\* StoreCfg naming the virtual server after the backend service
StoreCfgNamedByService(m, changeType, oldCm, cm, cfg) ==
    LET oldCfg == parseVirtualServerConfig(oldCm).cfg
        m1 == IF BackendChange(changeType, oldCm, cfg)
              THEN MapDel(m, serviceKey(oldCfg.ServiceName, oldCfg.ServicePort,
                                        namespace))
              ELSE m
        name == namespace \o <<95>> \o cfg.ServiceName
    IN  MapPut(m1, serviceKey(cfg.ServiceName, cfg.ServicePort, namespace),
               [cfg EXCEPT !.VirtualServerName = name])

\* lines 512-533, under the registry mutex: the old entry is deleted on a
\* backend change, the name is set and the declaration is stored
StoreCfg(m, changeType, oldCm, cm, cfg) ==
    LET oldCfg == parseVirtualServerConfig(oldCm).cfg
        m1 == IF BackendChange(changeType, oldCm, cfg)
              THEN MapDel(m, serviceKey(oldCfg.ServiceName, oldCfg.ServicePort,
                                        namespace))
              ELSE m
        name == namespace \o <<95>> \o cm.Name
    IN  MapPut(m1, serviceKey(cfg.ServiceName, cfg.ServicePort, namespace),
               [cfg EXCEPT !.VirtualServerName = name])

\* a delete of every entry of the declaration's service, whatever its port
DeleteAllOfService(m, cfg) ==
    [k \in {x \in DOMAIN m : x.ServiceName # cfg.ServiceName} |-> m[k]]

\* lines 534-538, under the registry mutex
DeleteCfg(m, cfg) ==
    MapDel(m, serviceKey(cfg.ServiceName, cfg.ServicePort, namespace))

\* the object a change is about: Old for Deleted, New otherwise (a
\* Replaced item is passed as new)
Changed(changeType, old, new) == IF changeType = "Deleted" THEN old ELSE new

\* processConfigMap run without interruption
\* a processConfigMap that reports an update only when the registry changed
processConfigMapIfChanged(m, changeType, old, new, nodePortMode, kube, epStore, nodes) ==
    LET cm == Changed(changeType, old, new)
        parsed == parseVirtualServerConfig(cm)
        got == GetService(kube, parsed.cfg.ServiceName)
        cfg == ResolveBackend(parsed.cfg, got.found, got.item, nodePortMode,
                              epStore, nodes)
        after == IF cm.Namespace # namespace \/ parsed.err # "" THEN m
                 ELSE IF changeType = "Deleted" THEN DeleteCfg(m, parsed.cfg)
                 ELSE StoreCfg(m, changeType, old, cm, cfg)
    IN  [m |-> after, ret |-> after # m]

processConfigMap(m, changeType, old, new, nodePortMode, kube, endptStore, nodes) ==
    LET cm == Changed(changeType, old, new)
        parsed == parseVirtualServerConfig(cm)
        got == GetService(kube, parsed.cfg.ServiceName)
        cfg == ResolveBackend(parsed.cfg, got.found, got.item, nodePortMode,
                              endptStore, nodes)
    IN  IF cm.Namespace # namespace THEN [m |-> m, ret |-> FALSE]
        ELSE IF parsed.err # "" THEN [m |-> m, ret |-> FALSE]
        ELSE IF changeType = "Deleted"
        THEN [m |-> DeleteCfg(m, parsed.cfg), ret |-> TRUE]
        ELSE [m |-> StoreCfg(m, changeType, old, cm, cfg), ret |-> TRUE]

(***************************************************************************)
(* processEndpoints                                                        *)
(***************************************************************************)
\* the comparison of line 580 left out: the entry is written and the update
\* flagged whatever the computed list
EndpointsPortStepAlways(acc, eps, portSpec, changeType) ==
    LET k == serviceKey(eps.Name, portSpec.Port, eps.Namespace)
    IN  IF k \notin DOMAIN acc.m THEN acc
        ELSE IF changeType = "Deleted"
        THEN [m |-> [acc.m EXCEPT ![k].PoolMemberAddrs = NilSlice,
                                  ![k].PoolMemberPort = -1],
              upd |-> TRUE]
        ELSE [m |-> [acc.m EXCEPT ![k].PoolMemberPort = 0,
                                  ![k].PoolMemberAddrs =
                                      getEndpointsForService(portSpec.Name, eps)],
              upd |-> TRUE]

\* the key built with the watched namespace instead of the namespace of the
\* Endpoints object
EndpointsPortStepWatched(acc, eps, portSpec, changeType) ==
    LET k == serviceKey(eps.Name, portSpec.Port, namespace)
        ipPorts == getEndpointsForService(portSpec.Name, eps)
    IN  IF k \notin DOMAIN acc.m THEN acc
        ELSE IF changeType = "Deleted"
        THEN [m |-> [acc.m EXCEPT ![k].PoolMemberAddrs = NilSlice,
                                  ![k].PoolMemberPort = -1],
              upd |-> TRUE]
        ELSE IF ipPorts # acc.m[k].PoolMemberAddrs
        THEN [m |-> [acc.m EXCEPT ![k].PoolMemberPort = 0,
                                  ![k].PoolMemberAddrs = ipPorts],
              upd |-> TRUE]
        ELSE acc

\* lines 576-595 for one port of the Service; acc carries the registry m and
\* updateConfig.  The key uses the namespace of the Endpoints object.
EndpointsPortStep(acc, eps, portSpec, changeType) ==
    LET k == serviceKey(eps.Name, portSpec.Port, eps.Namespace)
        ipPorts == getEndpointsForService(portSpec.Name, eps)
    IN  IF k \notin DOMAIN acc.m THEN acc
        ELSE IF changeType = "Deleted"
        THEN [m |-> [acc.m EXCEPT ![k].PoolMemberAddrs = NilSlice,
                                  ![k].PoolMemberPort = -1],
              upd |-> TRUE]
        ELSE IF ipPorts # acc.m[k].PoolMemberAddrs
        THEN [m |-> [acc.m EXCEPT ![k].PoolMemberPort = 0,
                                  ![k].PoolMemberAddrs = ipPorts],
              upd |-> TRUE]
        ELSE acc

RECURSIVE EndpointsPortsLoop(_, _, _, _, _)
EndpointsPortsLoop(acc, eps, ports, i, changeType) ==
    IF i > Len(ports) THEN acc
    ELSE EndpointsPortsLoop(EndpointsPortStep(acc, eps, ports[i], changeType),
                            eps, ports, i + 1, changeType)

processEndpoints(m, changeType, old, new, serviceStore) ==
    LET eps == IF changeType = "Deleted" THEN old ELSE new
        item == GetByKey(serviceStore, StoreKey(eps.Namespace, eps.Name))
        acc == EndpointsPortsLoop([m |-> m, upd |-> FALSE], eps, item.item.Ports,
                                  1, changeType)
    IN  IF ~item.found THEN [m |-> m, ret |-> FALSE]
        ELSE [m |-> acc.m, ret |-> acc.upd]

(***************************************************************************)
(* ProcessNodeUpdate, outputConfigLocked                                   *)
(***************************************************************************)
\* lines 608-613: the sorted addresses of the polled nodes
NewNodes(nodes, nodeInternal) ==
    MkSlice(SortStrings(getNodeAddresses(nodes, nodeInternal)))

\* the loop of lines 622-624 left out: no declaration gets the new node list
KeepAddrs(m, newNodes) == m

\* lines 622-624: every declaration gets the new node list
SetAllAddrs(m, newNodes) ==
    [k \in DOMAIN m |-> [m[k] EXCEPT !.PoolMemberAddrs = newNodes]]

\* the filter of lines 650-655 left out: every declaration
AllKeys(m) == DOMAIN m

\* lines 650-655: the declarations with an active service
ActiveKeys(m) == {k \in DOMAIN m : m[k].PoolMemberPort # -1}

\* the orders in which a range over a Go map may visit the keys ks
Orders(ks) ==
    {o \in [1..Cardinality(ks) -> ks] :
        \A i, j \in 1..Cardinality(ks) : i # j => o[i] # o[j]}

\* the services slice outputConfigLocked builds when the map is visited in
\* the order o, as handed to SendSection("services", services)
\* a payload built from the backends only: the frontend is not copied
ServicesBackendOnly(m, o) == [i \in 1..Len(o) |-> [m[o[i]] EXCEPT !.Mode = ""]]

Services(m, o) == [i \in 1..Len(o) |-> m[o[i]]]
\* response is what the writer answered: "pending" while outputConfigLocked
\* has not got its answer yet
Section(m, o) ==
    [sent |-> TRUE, name |-> "services", services |-> Services(m, o),
     response |-> "pending"]
NoSection == [sent |-> FALSE, name |-> "", services |-> <<>>, response |-> "none"]

\* the ways the writer answers a SendSection call (lines 657-676): an error
\* returned at once, a value on doneCh, a value on errCh, nothing within the
\* second outputConfigLocked waits
Responses == {"error", "done", "failed", "timeout"}
Respond(section, response) == [section EXCEPT !.response = response]

\* Less comparing the ports only
LessByPort(a, b) == a.ServicePort < b.ServicePort

\* VirtualServerConfigs.Less
Less(a, b) ==
    \/ StrLess(a.ServiceName, b.ServiceName)
    \/ (a.ServiceName = b.ServiceName /\ a.ServicePort < b.ServicePort)

(***************************************************************************)
(* The objects the model draws its events from                             *)
(***************************************************************************)
\* the longest list a Replaced event carries
MaxReplaced == 2

\* the ConfigMaps "fm" (<<102, 109>>) and "bm" (<<98, 109>>)
cfgFoo == newConfigMap(<<102, 109>>, SDefault, configmapFoo)
cfgFooTcp == newConfigMap(<<102, 109>>, SDefault, configmapFooTcp)
cfgFoo8080 == newConfigMap(<<102, 109>>, SDefault, configmapFoo8080)
cfgFooInvalid == newConfigMap(<<102, 109>>, SDefault, configmapInvalid)
cfgBar == newConfigMap(<<98, 109>>, SDefault, configmapBar)
cfgWrongNs == newConfigMap(<<102, 109>>, SWrongNs, configmapFoo)
NoObject == [Name |-> <<>>, Namespace |-> <<>>]
\* "fm" without the schema key, without the data key, with data that is not
\* JSON, and with data that fails the schema (cfgFooInvalid)
InvalidConfigMaps ==
    {newConfigMap(<<102, 109>>, SDefault, [configmapFoo EXCEPT ![f] = FALSE]) :
        f \in {"hasSchema", "hasData", "wellFormed", "valid"}}

fooNodePort == newService(SFoo, SDefault, "NodePort",
                          <<newServicePort(80, SPort0, 30001)>>)
fooTwoPorts == newService(SFoo, SDefault, "NodePort",
                          <<newServicePort(80, SPort0, 30001),
                            newServicePort(8080, SPort1, 38001)>>)
fooMoved == newService(SFoo, SDefault, "NodePort",
                       <<newServicePort(80, SPort1, 30002)>>)
fooClusterIP == newService(SFoo, SDefault, "ClusterIP",
                           <<newServicePort(80, SPort0, 0)>>)
barNodePort == newService(SBar, SDefault, "NodePort",
                          <<newServicePort(80, SPort0, 37001)>>)
fooWrongNs == newService(SFoo, SWrongNs, "NodePort",
                         <<newServicePort(80, SPort0, 31001)>>)
ServiceObjs == {fooNodePort, fooTwoPorts, fooWrongNs}

epFooTwoReady ==
    newEndpoints(SFoo, SDefault,
        <<EndpointSubset(<<Ip(2), Ip(1)>>, <<>>, <<EndpointPort(SPort0, 80)>>)>>)
epFooOneReady ==
    newEndpoints(SFoo, SDefault,
        <<EndpointSubset(<<Ip(1)>>, <<Ip(2)>>, <<EndpointPort(SPort0, 80)>>)>>)
epFooTwoSubsets ==
    newEndpoints(SFoo, SDefault,
        <<EndpointSubset(<<Ip(2)>>, <<>>,
                         <<EndpointPort(SPort0, 80), EndpointPort(SPort1, 8080)>>),
          EndpointSubset(<<Ip(10)>>, <<Ip(1)>>, <<EndpointPort(SPort0, 8081)>>)>>)
epFooEmpty == newEndpoints(SFoo, SDefault, <<>>)
epBar ==
    newEndpoints(SBar, SDefault,
        <<EndpointSubset(<<Ip(3)>>, <<>>, <<EndpointPort(SPort0, 80)>>)>>)
epFooWrongNs ==
    newEndpoints(SFoo, SWrongNs,
        <<EndpointSubset(<<Ip(3)>>, <<>>, <<EndpointPort(SPort0, 80)>>)>>)
EndpointsObjs == {epFooOneReady, epFooTwoSubsets, epFooWrongNs}

node0 == newNode(TRUE, <<NodeAddress("ExternalIP", NodeIp(0))>>)
node1 == newNode(FALSE, <<NodeAddress("ExternalIP", NodeIp(1))>>)
node2 == newNode(FALSE, <<NodeAddress("Hostname", NodeIp(3)),
                          NodeAddress("ExternalIP", NodeIp(2)),
                          NodeAddress("InternalIP", NodeIp(4))>>)
NodeLists == {<<>>, <<node0, node1>>, <<node0, node2, node1>>}

\* the lists of at most n distinct-keyed objects of S
ListsOf(S, n) ==
    {l \in UNION {[1..k -> S] : k \in 0..n} :
        \A i, j \in 1..Len(l) :
            i # j => StoreKey(l[i].Namespace, l[i].Name)
                         # StoreKey(l[j].Namespace, l[j].Name)}

ObjKey(obj) == StoreKey(obj.Namespace, obj.Name)

\* the lists the Replaced events of the model carry
ConfigMapLists == ListsOf({cfgFoo, cfgBar, cfgFooInvalid, cfgWrongNs}, MaxReplaced)
ServiceLists == ListsOf(ServiceObjs, MaxReplaced)
EndpointsLists == ListsOf(EndpointsObjs, MaxReplaced)

(***************************************************************************)
(* State                                                                   *)
(***************************************************************************)
VARIABLES
    virtualServers,   \* virtualServers.m: serviceKey -> declaration
    oldNodes,         \* the node cache
    kubeServices,     \* the Services the API server holds, by "<ns>/<name>"
    serviceStore,     \* the Service event store
    endptStore,       \* the Endpoints event store
    written,          \* the last payload handed to config.SendSection
    isNodePort,       \* the mode chosen at startup
    useNodeInternal,  \* SetUseNodeInternal
    ev,               \* the event processed last, and its SendSection calls
    budget,           \* the number of events still to be delivered
    locks,            \* the holder of virtualServers.Mutex and of mutex
    todo,             \* per thread, the calls it has still to make
    pc,               \* per thread, where it is in its current call
    local             \* per thread, the local variables of its current call

vars == <<virtualServers, oldNodes, kubeServices, serviceStore, endptStore,
          written, isNodePort, useNodeInternal, ev, budget, locks, todo, pc,
          local>>

\* the threads that call into the package: one per event stream, and the
\* node poller
Threads == {"configmap", "service", "endpoints", "node"}

\* no thread has a call to make
NoCalls == [t \in Threads |-> <<>>]
\* the locals of a thread that is not inside a call
NoLocal ==
    [kube |-> EmptyMap, endpt |-> EmptyMap, services |-> EmptyMap,
     nodes |-> NilSlice, newNodes |-> NilSlice]

\* the number of events one run of the model delivers
MaxEvents == 3

\* the event processed last: its kind and change type, the ChangedObject (or
\* the list of a Replaced event), whether everything it carries is in a
\* foreign namespace, the number of SendSection calls it made, the keys the
\* registry held when it arrived, each with its poolMemberPort, and, for a
\* node poll, the polled nodes (list) and whether the poll failed (err)
NoEvent ==
    [kind |-> "none", changeType |-> "", foreign |-> FALSE, sends |-> 0,
     old |-> NoObject, new |-> NoObject, list |-> <<>>, before |-> EmptyMap,
     err |-> FALSE]
Event(kind, changeType, foreign, updated, old, new, list) ==
    [kind |-> kind, changeType |-> changeType, foreign |-> foreign,
     sends |-> IF updated THEN 1 ELSE 0, old |-> old, new |-> new, list |-> list,
     before |-> [k \in DOMAIN virtualServers |-> virtualServers[k].PoolMemberPort],
     err |-> FALSE]

\* the state after package initialisation (lines 126-140, 157-160), for a
\* controller started in the given mode that is to receive n events one at a
\* time, or whose threads are to make the given calls: both mutexes are
\* unlocked and no thread is inside a call
Started(nodePortMode, n, calls) ==
    /\ virtualServers = EmptyMap
    /\ oldNodes = MkSlice(<<>>)
    /\ kubeServices = EmptyMap
    /\ serviceStore = EmptyMap
    /\ endptStore = EmptyMap
    /\ written = NoSection
    /\ isNodePort = nodePortMode
    /\ useNodeInternal = FALSE
    /\ ev = NoEvent
    /\ budget = n
    /\ locks = [registry |-> "none", cache |-> "none"]
    /\ todo = calls
    /\ pc = [t \in Threads |-> "idle"]
    /\ local = [t \in Threads |-> NoLocal]

Init == \E mode \in BOOLEAN : Started(mode, MaxEvents, NoCalls)

(***************************************************************************)
(* ProcessConfigMapUpdate, ProcessServiceUpdate, ProcessEndpointsUpdate    *)
(***************************************************************************)
\* lines 248-257: a Replaced event processes each item of its list and ORs
\* the flags; any other event processes its ChangedObject
RECURSIVE ConfigMapItems(_, _, _, _, _, _, _)
ConfigMapItems(acc, list, i, nodePortMode, kube, epStore, nodes) ==
    IF i > Len(list) THEN acc
    ELSE LET r == processConfigMap(acc.m, "Replaced", NoObject, list[i],
                                   nodePortMode, kube, epStore, nodes)
         IN  ConfigMapItems([m |-> r.m, ret |-> r.ret \/ acc.ret], list, i + 1,
                            nodePortMode, kube, epStore, nodes)

RECURSIVE ServiceItems(_, _, _, _, _, _)
ServiceItems(acc, list, i, nodePortMode, epStore, nodes) ==
    IF i > Len(list) THEN acc
    ELSE LET r == processService(acc.m, "Replaced", NoObject, list[i],
                                 nodePortMode, epStore, nodes)
         IN  ServiceItems([m |-> r.m, ret |-> r.ret \/ acc.ret], list, i + 1,
                          nodePortMode, epStore, nodes)

RECURSIVE EndpointsItems(_, _, _, _)
EndpointsItems(acc, list, i, svcStore) ==
    IF i > Len(list) THEN acc
    ELSE LET r == processEndpoints(acc.m, "Replaced", NoObject, list[i], svcStore)
         IN  EndpointsItems([m |-> r.m, ret |-> r.ret \/ acc.ret], list, i + 1,
                            svcStore)

\* outputConfig after a handler that computed the registry m: one
\* SendSection call if the handler reported an update, none otherwise.  The
\* writer of the runs that process one event at a time acknowledges every
\* section on doneCh.
OutputIf(updated, m) ==
    IF updated
    THEN \E o \in Orders(ActiveKeys(m)) : written' = Respond(Section(m, o), "done")
    ELSE written' = written

\* the registry and the emission after a Process...Update call whose handlers
\* returned r
Finish(r, kind, changeType, foreign, old, new, list) ==
    /\ virtualServers' = r.m
    /\ OutputIf(r.ret, r.m)
    /\ ev' = Event(kind, changeType, foreign, r.ret, old, new, list)
    /\ budget > 0
    /\ budget' = budget - 1
    /\ UNCHANGED <<locks, todo, pc, local>>

AllForeign(list) ==
    /\ Len(list) > 0
    /\ \A i \in 1..Len(list) : list[i].Namespace # namespace

(***************************************************************************)
(* ConfigMap events                                                        *)
(***************************************************************************)
ConfigMapChange(changeType, old, new) ==
    /\ Finish(processConfigMap(virtualServers, changeType, old, new, isNodePort,
                               kubeServices, endptStore, oldNodes),
              "configmap", changeType,
              Changed(changeType, old, new).Namespace # namespace, old, new, <<>>)
    /\ UNCHANGED <<oldNodes, kubeServices, serviceStore, endptStore, isNodePort,
                   useNodeInternal>>

ConfigMapAdded(S) == \E cm \in S : ConfigMapChange("Added", NoObject, cm)

ConfigMapUpdated(S) ==
    \E old, new \in S :
        /\ ObjKey(old) = ObjKey(new)
        /\ ConfigMapChange("Updated", old, new)

ConfigMapDeleted(S) == \E cm \in S : ConfigMapChange("Deleted", cm, NoObject)

\* the loop of lines 248-251 written as updated = updated || processConfigMap(...):
\* no item is processed after one that returned true
RECURSIVE ConfigMapItemsShortCircuit(_, _, _, _, _, _, _)
ConfigMapItemsShortCircuit(acc, list, i, nodePortMode, kube, epStore, nodes) ==
    IF i > Len(list) \/ acc.ret THEN acc
    ELSE ConfigMapItemsShortCircuit(
             processConfigMap(acc.m, "Replaced", NoObject, list[i], nodePortMode,
                              kube, epStore, nodes),
             list, i + 1, nodePortMode, kube, epStore, nodes)

ConfigMapReplacedShortCircuit(S) ==
    \E list \in S :
        /\ Finish(ConfigMapItemsShortCircuit([m |-> virtualServers, ret |-> FALSE],
                                             list, 1, isNodePort, kubeServices,
                                             endptStore, oldNodes),
                  "configmap", "Replaced", AllForeign(list), NoObject, NoObject,
                  list)
        /\ UNCHANGED <<oldNodes, kubeServices, serviceStore, endptStore,
                       isNodePort, useNodeInternal>>

ConfigMapReplaced(S) ==
    \E list \in S :
        /\ Finish(ConfigMapItems([m |-> virtualServers, ret |-> FALSE], list, 1,
                                 isNodePort, kubeServices, endptStore, oldNodes),
                  "configmap", "Replaced", AllForeign(list), NoObject, NoObject,
                  list)
        /\ UNCHANGED <<oldNodes, kubeServices, serviceStore, endptStore,
                       isNodePort, useNodeInternal>>

(***************************************************************************)
(* Service events: the API server and the Service store change, then the   *)
(* store's callback runs ProcessServiceUpdate                              *)
(***************************************************************************)
\* EventStore.Add / Update, Delete and Replace
StoreAdd(store, obj) == MapPut(store, ObjKey(obj), obj)
StoreDelete(store, obj) == MapDel(store, ObjKey(obj))

\* the number a resourceVersion string stands for; a version that is not a
\* decimal number counts as lower than every number
Version(rv) ==
    LET RECURSIVE Value(_, _)
        Value(str, acc) == IF str = <<>> THEN acc
                           ELSE Value(Tail(str), 10 * acc + (Head(str) - 48))
    IN  IF rv # <<>> /\ \A i \in 1..Len(rv) : rv[i] \in 48..57
        THEN Value(rv, 0) ELSE -1

\* a Replace that keeps, of the items with the same key, the one listed last
StoreReplaceLast(list) ==
    [k \in {ObjKey(list[i]) : i \in 1..Len(list)} |->
        list[CHOOSE i \in 1..Len(list) :
                 /\ ObjKey(list[i]) = k
                 /\ \A j \in 1..Len(list) : ObjKey(list[j]) = k => j <= i]]

\* of the items with the same key, Replace keeps the one with the highest
\* resourceVersion
StoreReplace(list) ==
    [k \in {ObjKey(list[i]) : i \in 1..Len(list)} |->
        LET I == {i \in 1..Len(list) : ObjKey(list[i]) = k}
        IN  IF Cardinality(I) = 1 THEN list[CHOOSE i \in I : TRUE]
            ELSE list[CHOOSE i \in I : \A j \in I :
                          \/ Version(list[j].ResourceVersion)
                                 < Version(list[i].ResourceVersion)
                          \/ /\ Version(list[j].ResourceVersion)
                                    = Version(list[i].ResourceVersion)
                             /\ j <= i]]

ServiceChange(changeType, old, new) ==
    /\ Finish(processService(virtualServers, changeType, old, new, isNodePort,
                             endptStore, oldNodes),
              "service", changeType,
              Changed(changeType, old, new).Namespace # namespace, old, new, <<>>)
    /\ UNCHANGED <<oldNodes, endptStore, isNodePort, useNodeInternal>>

ServiceAdded(S) ==
    \E svc \in S :
        /\ ObjKey(svc) \notin DOMAIN serviceStore
        /\ serviceStore' = StoreAdd(serviceStore, svc)
        /\ kubeServices' = StoreAdd(kubeServices, svc)
        /\ ServiceChange("Added", NoObject, svc)

ServiceUpdated(S) ==
    \E svc \in S :
        /\ ObjKey(svc) \in DOMAIN serviceStore
        /\ serviceStore' = StoreAdd(serviceStore, svc)
        /\ kubeServices' = StoreAdd(kubeServices, svc)
        /\ ServiceChange("Updated", serviceStore[ObjKey(svc)], svc)

ServiceDeleted ==
    \E k \in DOMAIN serviceStore :
        /\ serviceStore' = StoreDelete(serviceStore, serviceStore[k])
        /\ kubeServices' = StoreDelete(kubeServices, serviceStore[k])
        /\ ServiceChange("Deleted", serviceStore[k], NoObject)

ServiceReplaced(S) ==
    \E list \in S :
        /\ serviceStore' = StoreReplace(list)
        /\ kubeServices' = StoreReplace(list)
        /\ Finish(ServiceItems([m |-> virtualServers, ret |-> FALSE], list, 1,
                               isNodePort, endptStore, oldNodes),
                  "service", "Replaced", AllForeign(list), NoObject, NoObject, list)
        /\ UNCHANGED <<oldNodes, endptStore, isNodePort, useNodeInternal>>

(***************************************************************************)
(* Endpoints events: the Endpoints store changes, then its callback runs   *)
(* ProcessEndpointsUpdate                                                  *)
(***************************************************************************)
EndpointsChange(changeType, old, new) ==
    /\ Finish(processEndpoints(virtualServers, changeType, old, new, serviceStore),
              "endpoints", changeType,
              Changed(changeType, old, new).Namespace # namespace, old, new, <<>>)
    /\ UNCHANGED <<oldNodes, kubeServices, serviceStore, isNodePort,
                   useNodeInternal>>

EndpointsAdded(S) ==
    \E eps \in S :
        /\ ObjKey(eps) \notin DOMAIN endptStore
        /\ endptStore' = StoreAdd(endptStore, eps)
        /\ EndpointsChange("Added", NoObject, eps)

EndpointsUpdated(S) ==
    \E eps \in S :
        /\ ObjKey(eps) \in DOMAIN endptStore
        /\ endptStore' = StoreAdd(endptStore, eps)
        /\ EndpointsChange("Updated", endptStore[ObjKey(eps)], eps)

EndpointsDeleted ==
    \E k \in DOMAIN endptStore :
        /\ endptStore' = StoreDelete(endptStore, endptStore[k])
        /\ EndpointsChange("Deleted", endptStore[k], NoObject)

EndpointsReplaced(S) ==
    \E list \in S :
        /\ endptStore' = StoreReplace(list)
        /\ Finish(EndpointsItems([m |-> virtualServers, ret |-> FALSE], list, 1,
                                 serviceStore),
                  "endpoints", "Replaced", AllForeign(list), NoObject, NoObject,
                  list)
        /\ UNCHANGED <<oldNodes, kubeServices, serviceStore, isNodePort,
                       useNodeInternal>>

(***************************************************************************)
(* Node polling                                                            *)
(***************************************************************************)
\* the comparison of line 620 left out: every poll that succeeds rewrites the
\* declarations and the cache and emits
ProcessNodeUpdateAlways(nodes, err) ==
    LET newNodes == NewNodes(nodes, useNodeInternal)
        m == SetAllAddrs(virtualServers, newNodes)
    IN  /\ virtualServers' = IF ~err THEN m ELSE virtualServers
        /\ OutputIf(~err, m)
        /\ oldNodes' = IF ~err THEN newNodes ELSE oldNodes
        /\ ev' = [Event("node", "", FALSE, ~err, NoObject, NoObject, nodes)
                      EXCEPT !.err = err]
        /\ budget > 0
        /\ budget' = budget - 1
        /\ UNCHANGED <<kubeServices, serviceStore, endptStore, isNodePort,
                       useNodeInternal, locks, todo, pc, local>>

\* ProcessNodeUpdate(obj, err): the registry, the emission and the node cache
ProcessNodeUpdate(nodes, err) ==
    LET newNodes == NewNodes(nodes, useNodeInternal)
        changed == ~err /\ newNodes # oldNodes
        m == SetAllAddrs(virtualServers, newNodes)
    IN  /\ virtualServers' = IF changed THEN m ELSE virtualServers
        /\ OutputIf(changed, m)
        /\ oldNodes' = IF changed THEN newNodes ELSE oldNodes
        /\ ev' = [Event("node", "", FALSE, changed, NoObject, NoObject, nodes)
                      EXCEPT !.err = err]
        /\ budget > 0
        /\ budget' = budget - 1
        /\ UNCHANGED <<kubeServices, serviceStore, endptStore, isNodePort,
                       useNodeInternal, locks, todo, pc, local>>

NodeUpdate(S) == \E nodes \in S, err \in BOOLEAN : ProcessNodeUpdate(nodes, err)

\* SetUseNodeInternal(ni), between two polls
SetUseNodeInternal(ni) ==
    /\ useNodeInternal # ni
    /\ useNodeInternal' = ni
    /\ ev' = NoEvent
    /\ UNCHANGED <<virtualServers, oldNodes, kubeServices, serviceStore,
                   endptStore, written, isNodePort, budget, locks, todo, pc,
                   local>>

(***************************************************************************)
(* Events processed one at a time, in either mode                          *)
(***************************************************************************)
Next ==
    \/ ConfigMapAdded({cfgFoo, cfgFoo8080, cfgFooInvalid, cfgBar, cfgWrongNs})
    \/ ConfigMapUpdated({cfgFoo, cfgFoo8080, cfgFooInvalid, cfgBar, cfgWrongNs})
    \/ ConfigMapDeleted({cfgFoo, cfgFoo8080, cfgFooInvalid, cfgBar, cfgWrongNs})
    \/ ConfigMapReplaced(ConfigMapLists)
    \/ ServiceAdded(ServiceObjs)
    \/ ServiceUpdated(ServiceObjs)
    \/ ServiceDeleted
    \/ ServiceReplaced(ServiceLists)
    \/ EndpointsAdded(EndpointsObjs)
    \/ EndpointsUpdated(EndpointsObjs)
    \/ EndpointsDeleted
    \/ EndpointsReplaced(EndpointsLists)
    \/ NodeUpdate(NodeLists)

Spec == Init /\ [][Next]_vars

(***************************************************************************)
(* Either mode: ConfigMap events of every kind, valid and invalid, after   *)
(* the Service, Endpoints and Node events that let declarations resolve    *)
(***************************************************************************)
NextConfigMap ==
    \/ ConfigMapAdded({cfgFoo, cfgFooTcp, cfgFoo8080, cfgBar} \cup InvalidConfigMaps)
    \/ ConfigMapUpdated({cfgFoo, cfgFooTcp, cfgFoo8080, cfgBar}
                            \cup InvalidConfigMaps)
    \/ ConfigMapDeleted({cfgFoo, cfgFooTcp, cfgFoo8080, cfgBar}
                            \cup InvalidConfigMaps)
    \/ ConfigMapReplaced(ListsOf({cfgFooTcp, cfgBar} \cup InvalidConfigMaps,
                                 MaxReplaced))
    \/ ServiceAdded({fooTwoPorts})
    \/ EndpointsAdded({epFooTwoSubsets})
    \/ NodeUpdate({<<node0, node1>>})

SpecConfigMap == Init /\ [][NextConfigMap]_vars

(***************************************************************************)
(* Either mode: two ConfigMaps, "fm" and "bm", that declare the same       *)
(* backend foo:80                                                          *)
(***************************************************************************)
cfgFooByBm == newConfigMap(<<98, 109>>, SDefault, configmapFooTcp)

NextShared ==
    \/ ConfigMapAdded({cfgFoo, cfgFooByBm, cfgBar})
    \/ ConfigMapUpdated({cfgFoo, cfgFoo8080, cfgFooByBm, cfgBar})
    \/ ConfigMapDeleted({cfgFoo, cfgFooByBm, cfgBar})
    \/ ServiceAdded({fooNodePort})

SpecShared == Init /\ [][NextShared]_vars

(***************************************************************************)
(* NodePort mode: ConfigMap, Service and Node events, one at a time        *)
(***************************************************************************)
\* the number of events one run of a single-mode model delivers
MaxModeEvents == 5

NodePortConfigMapLists == ListsOf({cfgFoo, cfgBar}, MaxReplaced)
NodePortServiceLists == ListsOf({fooMoved, fooClusterIP, barNodePort}, MaxReplaced)

InitNodePort == Started(TRUE, MaxModeEvents, NoCalls)

NextNodePort ==
    \/ ConfigMapAdded({cfgFoo, cfgFoo8080, cfgBar})
    \/ ConfigMapUpdated({cfgFoo, cfgFoo8080, cfgBar})
    \/ ConfigMapDeleted({cfgFoo, cfgFoo8080, cfgBar})
    \/ ConfigMapReplaced(NodePortConfigMapLists)
    \/ ServiceAdded({fooNodePort, fooTwoPorts, fooMoved, fooClusterIP,
                     barNodePort})
    \/ ServiceUpdated({fooNodePort, fooTwoPorts, fooMoved, fooClusterIP,
                       barNodePort})
    \/ ServiceDeleted
    \/ ServiceReplaced(NodePortServiceLists)
    \/ NodeUpdate(NodeLists)

SpecNodePort == InitNodePort /\ [][NextNodePort]_vars

(***************************************************************************)
(* Cluster mode: ConfigMap, Service and Endpoints events, one at a time    *)
(***************************************************************************)
ClusterConfigMapLists == ListsOf({cfgFoo, cfgBar}, MaxReplaced)
ClusterServiceLists == ListsOf({fooMoved, barNodePort}, MaxReplaced)
ClusterEndpointsLists == ListsOf({epFooTwoReady, epBar}, MaxReplaced)

InitCluster == Started(FALSE, MaxModeEvents, NoCalls)

NextCluster ==
    \/ ConfigMapAdded({cfgFoo, cfgFoo8080})
    \/ ConfigMapUpdated({cfgFoo, cfgFoo8080})
    \/ ConfigMapDeleted({cfgFoo, cfgFoo8080})
    \/ ConfigMapReplaced(ClusterConfigMapLists)
    \/ ServiceAdded({fooNodePort, fooTwoPorts, fooMoved})
    \/ ServiceUpdated({fooNodePort, fooTwoPorts, fooMoved})
    \/ ServiceDeleted
    \/ ServiceReplaced(ClusterServiceLists)
    \/ EndpointsAdded({epFooTwoReady, epFooOneReady, epFooTwoSubsets,
                       epFooEmpty})
    \/ EndpointsUpdated({epFooTwoReady, epFooOneReady, epFooTwoSubsets,
                         epFooEmpty})
    \/ EndpointsDeleted
    \/ EndpointsReplaced(ClusterEndpointsLists)

SpecCluster == InitCluster /\ [][NextCluster]_vars

(***************************************************************************)
(* Either mode: a Service that comes and goes while its declarations, its  *)
(* Endpoints and the nodes are known.  The node list is polled in NodePort *)
(* mode only: every caller of ProcessNodeUpdate in the tests runs in that  *)
(* mode, as in NextCluster.                                                *)
(***************************************************************************)
InitService == \E mode \in BOOLEAN : Started(mode, MaxModeEvents, NoCalls)

NextService ==
    \/ ConfigMapAdded({cfgFoo, cfgFooTcp, cfgFoo8080})
    \/ ServiceAdded({fooTwoPorts, barNodePort})
    \/ ServiceDeleted
    \/ EndpointsAdded({epFooTwoSubsets})
    \/ (isNodePort /\ NodeUpdate({<<node0, node1>>}))

SpecService == InitService /\ [][NextService]_vars

(***************************************************************************)
(* NodePort mode: the node poller, with nodes of every kind and either     *)
(* address type selected                                                   *)
(***************************************************************************)
InitNodes == Started(TRUE, MaxModeEvents, NoCalls)

NextNodes ==
    \/ \E ni \in BOOLEAN : SetUseNodeInternal(ni)
    \/ NodeUpdate({<<>>,
                   <<node0, node1>>,
                   <<node2, node1>>,
                   <<node1, node0, node2>>,
                   <<newNode(TRUE, <<NodeAddress("InternalIP", NodeIp(5))>>),
                     newNode(FALSE, <<NodeAddress("InternalIP", NodeIp(6))>>),
                     newNode(FALSE, <<NodeAddress("Hostname", NodeIp(8))>>)>>})
    \/ ConfigMapAdded({cfgFoo, cfgBar})
    \/ ServiceAdded({fooNodePort})
    \/ ServiceDeleted

SpecNodes == InitNodes /\ [][NextNodes]_vars

(***************************************************************************)
(* The List-Watch Runner of the Service event stream, with the callback of *)
(* the event stream tests: pc["service"] is the Runner's position,         *)
(* serviceStore its store, ev the callback or the step it made last        *)
(***************************************************************************)
\* a step of the Runner that is not a callback
RunnerNote(what) == [NoEvent EXCEPT !.kind = "runner", !.changeType = what]

\* Run(): the background worker starts with the List
RunnerRun ==
    /\ pc["service"] = "idle"
    /\ pc' = [pc EXCEPT !["service"] = "run_list"]
    /\ ev' = RunnerNote("Run")
    /\ UNCHANGED <<virtualServers, oldNodes, kubeServices, serviceStore,
                   endptStore, written, isNodePort, useNodeInternal, budget,
                   locks, todo, local>>

\* step 1: the Runner calls List
RunnerListCall ==
    /\ pc["service"] = "run_list"
    /\ pc' = [pc EXCEPT !["service"] = "run_listing"]
    /\ ev' = RunnerNote("List")
    /\ UNCHANGED <<virtualServers, oldNodes, kubeServices, serviceStore,
                   endptStore, written, isNodePort, useNodeInternal, budget,
                   locks, todo, local>>

\* a Runner that stops for good when List fails
RunnerListReturnOnce(S) ==
    /\ pc["service"] = "run_listing"
    /\ pc' = [pc EXCEPT !["service"] = "run_failed"]
    /\ ev' = RunnerNote("ListFailed")
    /\ UNCHANGED <<virtualServers, oldNodes, kubeServices, serviceStore,
                   endptStore, written, isNodePort, useNodeInternal, budget,
                   locks, todo, local>>

\* a Runner that goes on to Watch without seeding the store
RunnerListReturnNoSeed(S) ==
    /\ pc["service"] = "run_listing"
    /\ \E list \in S :
           /\ pc' = [pc EXCEPT !["service"] = "run_watch"]
           /\ ev' = Event("service", "Replaced", FALSE, FALSE, NoObject, NoObject,
                          list)
    /\ UNCHANGED <<virtualServers, oldNodes, kubeServices, serviceStore,
                   endptStore, written, isNodePort, useNodeInternal, budget,
                   locks, todo, local>>

\* step 1, continued: List fails and the Runner retries after a backoff, or
\* List returns one of the lists of S, the store is populated by Replace and
\* the store's callback is invoked once, with Replaced and the new slice
RunnerListReturn(S) ==
    /\ pc["service"] = "run_listing"
    /\ \/ /\ pc' = [pc EXCEPT !["service"] = "run_list"]
          /\ ev' = RunnerNote("ListFailed")
          /\ serviceStore' = serviceStore
       \/ \E list \in S :
              /\ pc' = [pc EXCEPT !["service"] = "run_watch"]
              /\ serviceStore' = StoreReplace(list)
              /\ ev' = Event("service", "Replaced", FALSE, FALSE, NoObject,
                             NoObject, list)
    /\ UNCHANGED <<virtualServers, oldNodes, kubeServices, endptStore, written,
                   isNodePort, useNodeInternal, budget, locks, todo, local>>

\* step 2: the Runner calls Watch
RunnerWatch ==
    /\ pc["service"] = "run_watch"
    /\ pc' = [pc EXCEPT !["service"] = "run_watching"]
    /\ ev' = RunnerNote("Watch")
    /\ UNCHANGED <<virtualServers, oldNodes, kubeServices, serviceStore,
                   endptStore, written, isNodePort, useNodeInternal, budget,
                   locks, todo, local>>

\* a dispatcher that passes the new object as Old
RunnerEventNoPrior(S) ==
    /\ pc["service"] = "run_watching"
    /\ \E obj \in S :
           /\ ObjKey(obj) \in DOMAIN serviceStore
           /\ serviceStore' = StoreAdd(serviceStore, obj)
           /\ ev' = Event("service", "Updated", FALSE, FALSE, obj, obj, <<>>)
    /\ UNCHANGED <<virtualServers, oldNodes, kubeServices, endptStore, written,
                   isNodePort, useNodeInternal, budget, locks, todo, pc, local>>

\* step 3: one watch event about an object of S is applied to the store and
\* the store's callback is invoked with the ChangedObject the dispatcher
\* computes from the prior entry.  The upstream reports Added for an object
\* the store does not hold, Modified and Deleted for one it holds.
RunnerEvent(S) ==
    /\ pc["service"] = "run_watching"
    /\ \E obj \in S :
           \/ /\ ObjKey(obj) \notin DOMAIN serviceStore
              /\ serviceStore' = StoreAdd(serviceStore, obj)
              /\ ev' = Event("service", "Added", FALSE, FALSE, NoObject, obj, <<>>)
           \/ /\ ObjKey(obj) \in DOMAIN serviceStore
              /\ serviceStore' = StoreAdd(serviceStore, obj)
              /\ ev' = Event("service", "Updated", FALSE, FALSE,
                             serviceStore[ObjKey(obj)], obj, <<>>)
           \/ /\ ObjKey(obj) \in DOMAIN serviceStore
              /\ serviceStore' = StoreDelete(serviceStore, obj)
              /\ ev' = Event("service", "Deleted", FALSE, FALSE,
                             serviceStore[ObjKey(obj)], NoObject, <<>>)
    /\ UNCHANGED <<virtualServers, oldNodes, kubeServices, endptStore, written,
                   isNodePort, useNodeInternal, budget, locks, todo, pc, local>>

\* step 4: the watch channel closes or signals an error; the Runner restarts
\* from the List
RunnerWatchEnd ==
    /\ pc["service"] = "run_watching"
    /\ pc' = [pc EXCEPT !["service"] = "run_list"]
    /\ ev' = RunnerNote("WatchEnded")
    /\ UNCHANGED <<virtualServers, oldNodes, kubeServices, serviceStore,
                   endptStore, written, isNodePort, useNodeInternal, budget,
                   locks, todo, local>>

\* step 5: Stop() ends the worker wherever it is
RunnerStop ==
    /\ pc["service"] \in {"run_list", "run_listing", "run_watch", "run_watching"}
    /\ pc' = [pc EXCEPT !["service"] = "run_stopped"]
    /\ ev' = RunnerNote("Stop")
    /\ UNCHANGED <<virtualServers, oldNodes, kubeServices, serviceStore,
                   endptStore, written, isNodePort, useNodeInternal, budget,
                   locks, todo, local>>

\* the objects the API server may hold: the Services s0 and s1 of the
\* watched namespace in the versions "2", "9", "10" and "x"
RunnerObjects ==
    {[Name |-> <<115, 48 + n>>, Namespace |-> SDefault, ResourceVersion |-> rv] :
        n \in {0, 1}, rv \in {<<50>>, <<57>>, <<49, 48>>, <<120>>}}

\* the longest list List returns
MaxListed == 3

NextRunner ==
    \/ RunnerRun
    \/ RunnerListCall
    \/ RunnerListReturn(UNION {[1..n -> RunnerObjects] : n \in 0..MaxListed})
    \/ RunnerWatch
    \/ RunnerEvent(RunnerObjects)
    \/ RunnerWatchEnd
    \/ RunnerStop

SpecRunner == Started(FALSE, 0, NoCalls) /\ [][NextRunner]_vars

\* the worker is scheduled: a Runner that is to call List does call it
SpecRunnerFair == SpecRunner /\ WF_vars(RunnerListCall)

\* a Run() that starts a worker at the List whatever the Runner's position
RunnerRunAgainRestarts ==
    /\ pc["service"] # "idle"
    /\ pc' = [pc EXCEPT !["service"] = "run_list"]
    /\ ev' = RunnerNote("RunAgain")
    /\ UNCHANGED <<virtualServers, oldNodes, kubeServices, serviceStore,
                   endptStore, written, isNodePort, useNodeInternal, budget,
                   locks, todo, local>>

\* Run() of a Runner that was started before: no worker starts
RunnerRunAgain ==
    /\ pc["service"] # "idle"
    /\ ev' = RunnerNote("RunAgain")
    /\ UNCHANGED <<virtualServers, oldNodes, kubeServices, serviceStore,
                   endptStore, written, isNodePort, useNodeInternal, budget,
                   locks, todo, pc, local>>

\* Stop() of a Runner that was stopped before
RunnerStopAgain ==
    /\ pc["service"] = "run_stopped"
    /\ ev' = RunnerNote("StopAgain")
    /\ UNCHANGED <<virtualServers, oldNodes, kubeServices, serviceStore,
                   endptStore, written, isNodePort, useNodeInternal, budget,
                   locks, todo, pc, local>>

\* the Runner with callers that call Run() and Stop() any number of times
NextRunStop ==
    \/ NextRunner
    \/ RunnerRunAgain
    \/ RunnerStopAgain

SpecRunStop == Started(FALSE, 0, NoCalls) /\ [][NextRunStop]_vars

(***************************************************************************)
(* Concurrent callers: each thread makes the calls of its list in order;   *)
(* a call is a sequence of steps, one per access to shared state           *)
(***************************************************************************)
\* the calls a thread makes
\* Process{ConfigMap,Service,Endpoints}Update(changeType,
\* ChangedObject{old, new}), ProcessNodeUpdate(nodes, err), and the
\* Services.Create or store Add that precedes a call
HandlerCall(op, changeType, old, new) ==
    [op |-> op, changeType |-> changeType, old |-> old, new |-> new]
NodeCall(nodes, err) == [op |-> "node", nodes |-> nodes, err |-> err]
StoreCall(op, obj) == [op |-> op, obj |-> obj]

\* the call thread t is making or about to make
Call(t) == Head(todo[t])
Idle(t, op) == pc[t] = "idle" /\ todo[t] # <<>> /\ Call(t).op = op

\* thread t moves on inside its call, with locals loc
Goto(t, label, loc) ==
    /\ pc' = [pc EXCEPT ![t] = label]
    /\ local' = [local EXCEPT ![t] = loc]
    /\ todo' = todo

\* the call of thread t returns
Return(t) ==
    /\ pc' = [pc EXCEPT ![t] = "idle"]
    /\ local' = [local EXCEPT ![t] = NoLocal]
    /\ todo' = [todo EXCEPT ![t] = Tail(@)]

\* a Lock that neither waits nor takes the mutex
NoLock(t, mu) == locks' = locks

\* Lock blocks until the mutex is free
Lock(t, mu) == locks[mu] = "none" /\ locks' = [locks EXCEPT ![mu] = t]
UnlockAll(t) == locks' = [mu \in DOMAIN locks |-> IF locks[mu] = t THEN "none"
                                                  ELSE locks[mu]]

\* Process...Update returning without calling outputConfig
ReturnOnly(t, updated) == Return(t)

\* the end of Process...Update: outputConfig if a handler reported an update
OutputOrReturn(t, updated) ==
    IF updated THEN Goto(t, "out_registry", local[t]) ELSE Return(t)

\* fake.Core().Services(namespace).Create(svc)
ServiceCreate ==
    /\ Idle("service", "create")
    /\ kubeServices' = StoreAdd(kubeServices, Call("service").obj)
    /\ Return("service")
    /\ UNCHANGED <<virtualServers, oldNodes, serviceStore, endptStore, written,
                   isNodePort, useNodeInternal, ev, budget, locks>>

\* svcStore.Add(svc), endptStore.Add(eps): the store changes; the callback
\* is the thread's next call
StoreAddItem(t) ==
    /\ Idle(t, "add")
    /\ serviceStore' = IF t = "service" THEN StoreAdd(serviceStore, Call(t).obj)
                       ELSE serviceStore
    /\ endptStore' = IF t = "endpoints" THEN StoreAdd(endptStore, Call(t).obj)
                     ELSE endptStore
    /\ Return(t)
    /\ UNCHANGED <<virtualServers, oldNodes, kubeServices, written, isNodePort,
                   useNodeInternal, ev, budget, locks>>

\* store.Delete(obj) by the thread of the store
StoreDeleteItem(t) ==
    /\ Idle(t, "delete")
    /\ serviceStore' = IF t = "service" THEN StoreDelete(serviceStore, Call(t).obj)
                       ELSE serviceStore
    /\ endptStore' = IF t = "endpoints" THEN StoreDelete(endptStore, Call(t).obj)
                     ELSE endptStore
    /\ Return(t)
    /\ UNCHANGED <<virtualServers, oldNodes, kubeServices, written, isNodePort,
                   useNodeInternal, ev, budget, locks>>

\* lines 462-464: the fetched Service makes processConfigMap call
\* getNodesFromCache
ConfigMapNeedsNodes(cfg, got) ==
    /\ isNodePort
    /\ got.found
    /\ got.item.Type = "NodePort"
    /\ \E i \in 1..Len(got.item.Ports) : got.item.Ports[i].Port = cfg.ServicePort

\* processConfigMap up to the Service Get of line 457
ConfigMapBegin ==
    LET t == "configmap"
        c == Call(t)
        cm == Changed(c.changeType, c.old, c.new)
        parsed == parseVirtualServerConfig(cm)
        got == GetService(kubeServices, parsed.cfg.ServiceName)
        loc == [local[t] EXCEPT !.kube = kubeServices]
    IN  /\ Idle(t, "configmap")
        /\ IF cm.Namespace # namespace \/ parsed.err # "" THEN Return(t)
           ELSE IF c.changeType = "Deleted" THEN Goto(t, "cm_registry", local[t])
           ELSE IF ConfigMapNeedsNodes(parsed.cfg, got) THEN Goto(t, "cm_cache", loc)
           ELSE IF ~isNodePort /\ got.found THEN Goto(t, "cm_endpoints", loc)
           ELSE Goto(t, "cm_registry", loc)
        /\ UNCHANGED <<virtualServers, oldNodes, kubeServices, serviceStore,
                       endptStore, written, isNodePort, useNodeInternal, ev,
                       budget, locks>>

\* getNodesFromCache called at line 469: mutex.Lock()
ConfigMapNodesLock ==
    /\ pc["configmap"] = "cm_cache"
    /\ Lock("configmap", "cache")
    /\ Goto("configmap", "cm_nodes", local["configmap"])
    /\ UNCHANGED <<virtualServers, oldNodes, kubeServices, serviceStore,
                   endptStore, written, isNodePort, useNodeInternal, ev, budget>>

\* getNodesFromCache: the read of oldNodes and the deferred Unlock
ConfigMapNodesRead ==
    /\ pc["configmap"] = "cm_nodes"
    /\ UnlockAll("configmap")
    /\ Goto("configmap", "cm_registry",
            [local["configmap"] EXCEPT !.nodes = oldNodes])
    /\ UNCHANGED <<virtualServers, oldNodes, kubeServices, serviceStore,
                   endptStore, written, isNodePort, useNodeInternal, ev, budget>>

\* line 474: endptStore.GetByKey
ConfigMapEndpoints ==
    /\ pc["configmap"] = "cm_endpoints"
    /\ Goto("configmap", "cm_registry",
            [local["configmap"] EXCEPT !.endpt = endptStore])
    /\ UNCHANGED <<virtualServers, oldNodes, kubeServices, serviceStore,
                   endptStore, written, isNodePort, useNodeInternal, ev, budget,
                   locks>>

\* lines 512 and 535: virtualServers.Lock()
ConfigMapLock ==
    /\ pc["configmap"] = "cm_registry"
    /\ Lock("configmap", "registry")
    /\ Goto("configmap", "cm_store", local["configmap"])
    /\ UNCHANGED <<virtualServers, oldNodes, kubeServices, serviceStore,
                   endptStore, written, isNodePort, useNodeInternal, ev, budget>>

\* lines 514-538 and the deferred Unlock: the declaration resolved from what
\* the thread read earlier is stored, or the entry is deleted
ConfigMapStore ==
    LET t == "configmap"
        c == Call(t)
        r == processConfigMap(virtualServers, c.changeType, c.old, c.new,
                              isNodePort, local[t].kube, local[t].endpt,
                              local[t].nodes)
    IN  /\ pc[t] = "cm_store"
        /\ virtualServers' = r.m
        /\ UnlockAll(t)
        /\ OutputOrReturn(t, r.ret)
        /\ UNCHANGED <<oldNodes, kubeServices, serviceStore, endptStore, written,
                       isNodePort, useNodeInternal, ev, budget>>

\* outputConfig, line 635: virtualServers.Lock()
OutputLock(t) ==
    /\ pc[t] = "out_registry"
    /\ Lock(t, "registry")
    /\ Goto(t, "out_send", local[t])
    /\ UNCHANGED <<virtualServers, oldNodes, kubeServices, serviceStore,
                   endptStore, written, isNodePort, useNodeInternal, ev, budget>>

\* outputConfigLocked, lines 648-657: the services slice is built and handed
\* to SendSection; the registry mutex stays locked
OutputSend(t) ==
    /\ pc[t] = "out_send"
    /\ \E o \in Orders(ActiveKeys(virtualServers)) :
           written' = Section(virtualServers, o)
    /\ Goto(t, "out_wait", local[t])
    /\ UNCHANGED <<virtualServers, oldNodes, kubeServices, serviceStore,
                   endptStore, isNodePort, useNodeInternal, ev, budget, locks>>

\* outputConfigLocked with a select that has no time.After case: a writer
\* that never answers is waited for without end
OutputWaitNoTimeout(t, R) ==
    /\ pc[t] = "out_wait"
    /\ \E r \in R \ {"timeout"} : written' = Respond(written, r)
    /\ UnlockAll(t)
    /\ Return(t)
    /\ UNCHANGED <<virtualServers, oldNodes, kubeServices, serviceStore,
                   endptStore, isNodePort, useNodeInternal, ev, budget>>

\* an outputConfigLocked that calls SendSection again when the writer did not
\* acknowledge the section
OutputWaitRetry(t, R) ==
    /\ pc[t] = "out_wait"
    /\ \E r \in R :
           /\ written' = Respond(written, r)
           /\ IF r = "done" THEN UnlockAll(t) /\ Return(t)
              ELSE locks' = locks /\ Goto(t, "out_send", local[t])
    /\ UNCHANGED <<virtualServers, oldNodes, kubeServices, serviceStore,
                   endptStore, isNodePort, useNodeInternal, ev, budget>>

\* outputConfigLocked, lines 658-677: the writer answers in one of the ways
\* of R, the answer is logged, and the caller unlocks (line 637 for
\* outputConfig, the deferred Unlocks for ProcessNodeUpdate) and returns
OutputWait(t, R) ==
    /\ pc[t] = "out_wait"
    /\ \E r \in R : written' = Respond(written, r)
    /\ UnlockAll(t)
    /\ Return(t)
    /\ UNCHANGED <<virtualServers, oldNodes, kubeServices, serviceStore,
                   endptStore, isNodePort, useNodeInternal, ev, budget>>

\* lines 360-370: processService is going to call getNodesFromCache
ServiceNeedsNodes(c) ==
    /\ isNodePort
    /\ c.changeType # "Deleted"
    /\ c.new.Type = "NodePort"
    /\ \E i \in 1..Len(c.new.Ports) :
           serviceKey(c.new.Name, c.new.Ports[i].Port, namespace)
               \in DOMAIN virtualServers

\* processService up to the namespace test of lines 351-354
ServiceBegin ==
    /\ Idle("service", "service")
    /\ IF Changed(Call("service").changeType, Call("service").old,
                   Call("service").new).Namespace # namespace THEN Return("service")
       ELSE Goto("service", "svc_registry", local["service"])
    /\ UNCHANGED <<virtualServers, oldNodes, kubeServices, serviceStore,
                   endptStore, written, isNodePort, useNodeInternal, ev, budget,
                   locks>>

\* line 357: virtualServers.Lock()
ServiceLock ==
    /\ pc["service"] = "svc_registry"
    /\ Lock("service", "registry")
    /\ Goto("service",
            IF ServiceNeedsNodes(Call("service")) THEN "svc_cache" ELSE "svc_apply",
            local["service"])
    /\ UNCHANGED <<virtualServers, oldNodes, kubeServices, serviceStore,
                   endptStore, written, isNodePort, useNodeInternal, ev, budget>>

\* getNodesFromCache called at line 370, under the registry mutex:
\* mutex.Lock()
ServiceNodesLock ==
    /\ pc["service"] = "svc_cache"
    /\ Lock("service", "cache")
    /\ Goto("service", "svc_apply", local["service"])
    /\ UNCHANGED <<virtualServers, oldNodes, kubeServices, serviceStore,
                   endptStore, written, isNodePort, useNodeInternal, ev, budget>>

\* lines 359-405 and the deferred Unlocks
ServiceApply ==
    LET t == "service"
        c == Call(t)
        r == processService(virtualServers, c.changeType, c.old, c.new, isNodePort,
                            endptStore, oldNodes)
    IN  /\ pc[t] = "svc_apply"
        /\ virtualServers' = r.m
        /\ UnlockAll(t)
        /\ OutputOrReturn(t, r.ret)
        /\ UNCHANGED <<oldNodes, kubeServices, serviceStore, endptStore, written,
                       isNodePort, useNodeInternal, ev, budget>>

\* processEndpoints up to the serviceStore.GetByKey of line 563
EndpointsBegin ==
    LET t == "endpoints"
        eps == Changed(Call(t).changeType, Call(t).old, Call(t).new)
    IN  /\ Idle(t, "endpoints")
        /\ IF GetByKey(serviceStore, StoreKey(eps.Namespace, eps.Name)).found
           THEN Goto(t, "ep_registry", [local[t] EXCEPT !.services = serviceStore])
           ELSE Return(t)
        /\ UNCHANGED <<virtualServers, oldNodes, kubeServices, serviceStore,
                       endptStore, written, isNodePort, useNodeInternal, ev,
                       budget, locks>>

\* line 569: virtualServers.Lock()
EndpointsLock ==
    /\ pc["endpoints"] = "ep_registry"
    /\ Lock("endpoints", "registry")
    /\ Goto("endpoints", "ep_apply", local["endpoints"])
    /\ UNCHANGED <<virtualServers, oldNodes, kubeServices, serviceStore,
                   endptStore, written, isNodePort, useNodeInternal, ev, budget>>

\* lines 572-598 and the deferred Unlock, for the Service read earlier
EndpointsApply ==
    LET t == "endpoints"
        c == Call(t)
        r == processEndpoints(virtualServers, c.changeType, c.old, c.new,
                              local[t].services)
    IN  /\ pc[t] = "ep_apply"
        /\ virtualServers' = r.m
        /\ UnlockAll(t)
        /\ OutputOrReturn(t, r.ret)
        /\ UNCHANGED <<oldNodes, kubeServices, serviceStore, endptStore, written,
                       isNodePort, useNodeInternal, ev, budget>>

\* a variant of lines 615-618 taking the node mutex first
CacheThenRegistry == <<"cache", "registry">>

\* lines 615-618: ProcessNodeUpdate locks the registry, then the node cache
NodeUpdateLocks == <<"registry", "cache">>

\* ProcessNodeUpdate, lines 603-613
NodeBegin ==
    LET t == "node"
        c == Call(t)
    IN  /\ Idle(t, "node")
        /\ IF c.err THEN Return(t)
           ELSE Goto(t, "node_first",
                     [local[t] EXCEPT !.newNodes = NewNodes(c.nodes, useNodeInternal)])
        /\ UNCHANGED <<virtualServers, oldNodes, kubeServices, serviceStore,
                       endptStore, written, isNodePort, useNodeInternal, ev,
                       budget, locks>>

\* line 615
NodeLockFirst ==
    /\ pc["node"] = "node_first"
    /\ Lock("node", NodeUpdateLocks[1])
    /\ Goto("node", "node_second", local["node"])
    /\ UNCHANGED <<virtualServers, oldNodes, kubeServices, serviceStore,
                   endptStore, written, isNodePort, useNodeInternal, ev, budget>>

\* line 617
NodeLockSecond ==
    /\ pc["node"] = "node_second"
    /\ Lock("node", NodeUpdateLocks[2])
    /\ Goto("node", "node_apply", local["node"])
    /\ UNCHANGED <<virtualServers, oldNodes, kubeServices, serviceStore,
                   endptStore, written, isNodePort, useNodeInternal, ev, budget>>

\* lines 620-629 under both mutexes: on a change every declaration gets the
\* new list, the services slice is built and handed to SendSection, and the
\* cache is updated (nothing reads the cache before the mutexes are
\* released); without a change the deferred Unlocks run
NodeApply ==
    LET t == "node"
        newNodes == local[t].newNodes
        m == SetAllAddrs(virtualServers, newNodes)
    IN  /\ pc[t] = "node_apply"
        /\ IF newNodes # oldNodes
           THEN /\ virtualServers' = m
                /\ \E o \in Orders(ActiveKeys(m)) : written' = Section(m, o)
                /\ oldNodes' = newNodes
                /\ Goto(t, "out_wait", local[t])
                /\ locks' = locks
           ELSE /\ UNCHANGED <<virtualServers, written, oldNodes>>
                /\ UnlockAll(t)
                /\ Return(t)
        /\ UNCHANGED <<kubeServices, serviceStore, endptStore, isNodePort,
                       useNodeInternal, ev, budget>>

\* every thread has made its calls
AllReturned == \A t \in Threads : pc[t] = "idle" /\ todo[t] = <<>>

\* the mutex thread t is blocked on or about to lock, if any
Requested(t) ==
    CASE pc[t] \in {"cm_registry", "svc_registry", "ep_registry", "out_registry"}
             -> "registry"
      [] pc[t] \in {"cm_cache", "svc_cache"} -> "cache"
      [] pc[t] = "node_first" -> NodeUpdateLocks[1]
      [] pc[t] = "node_second" -> NodeUpdateLocks[2]
      [] OTHER -> "none"

(***************************************************************************)
(* NodePort mode: node polling, ConfigMap and Service threads              *)
(***************************************************************************)
NodePortCalls ==
    [configmap |-> <<HandlerCall("configmap", "Added", NoObject, cfgFoo),
                     HandlerCall("configmap", "Added", NoObject, cfgBar)>>,
     service   |-> <<StoreCall("create", fooNodePort),
                     HandlerCall("service", "Added", NoObject, fooNodePort),
                     StoreCall("create", barNodePort),
                     HandlerCall("service", "Added", NoObject, barNodePort)>>,
     endpoints |-> <<>>,
     node      |-> <<NodeCall(<<node0, node1>>, FALSE),
                     NodeCall(<<node0, node1, node2>>, FALSE)>>]

InitConcurrentNodePort == Started(TRUE, 0, NodePortCalls)

NextConcurrentNodePort ==
    \/ ServiceCreate
    \/ ConfigMapBegin
    \/ ConfigMapNodesLock
    \/ ConfigMapNodesRead
    \/ ConfigMapLock
    \/ ConfigMapStore
    \/ ServiceBegin
    \/ ServiceLock
    \/ ServiceNodesLock
    \/ ServiceApply
    \/ NodeBegin
    \/ NodeLockFirst
    \/ NodeLockSecond
    \/ NodeApply
    \/ \E t \in Threads : OutputLock(t)
    \/ \E t \in Threads : OutputSend(t)
    \/ \E t \in Threads : OutputWait(t, Responses)

SpecConcurrentNodePort == InitConcurrentNodePort /\ [][NextConcurrentNodePort]_vars

(***************************************************************************)
(* Cluster mode: Endpoints, ConfigMap and Service stores changed by three  *)
(* threads, each store calling back on the thread that changed it; the     *)
(* Service callback creates the Service at the API server after            *)
(* ProcessServiceUpdate                                                    *)
(***************************************************************************)
ClusterCalls ==
    [configmap |-> <<HandlerCall("configmap", "Added", NoObject, cfgFoo),
                     HandlerCall("configmap", "Added", NoObject, cfgBar)>>,
     service   |-> <<StoreCall("add", fooClusterIP),
                     HandlerCall("service", "Added", NoObject, fooClusterIP),
                     StoreCall("create", fooClusterIP),
                     StoreCall("add", barNodePort),
                     HandlerCall("service", "Added", NoObject, barNodePort),
                     StoreCall("create", barNodePort)>>,
     endpoints |-> <<StoreCall("add", epFooOneReady),
                     HandlerCall("endpoints", "Added", NoObject, epFooOneReady),
                     StoreCall("add", epBar),
                     HandlerCall("endpoints", "Added", NoObject, epBar)>>,
     node      |-> <<>>]

InitConcurrentCluster == Started(FALSE, 0, ClusterCalls)

NextConcurrentCluster ==
    \/ ServiceCreate
    \/ \E t \in {"service", "endpoints"} : StoreAddItem(t)
    \/ ConfigMapBegin
    \/ ConfigMapEndpoints
    \/ ConfigMapLock
    \/ ConfigMapStore
    \/ ServiceBegin
    \/ ServiceLock
    \/ ServiceApply
    \/ EndpointsBegin
    \/ EndpointsLock
    \/ EndpointsApply
    \/ \E t \in Threads : OutputLock(t)
    \/ \E t \in Threads : OutputSend(t)
    \/ \E t \in Threads : OutputWait(t, {"done"})

SpecConcurrentCluster == InitConcurrentCluster /\ [][NextConcurrentCluster]_vars

(***************************************************************************)
(* Either mode: all four threads calling into the package                  *)
(***************************************************************************)
LockCalls ==
    [configmap |-> <<HandlerCall("configmap", "Added", NoObject, cfgFoo),
                     HandlerCall("configmap", "Updated", cfgFoo, cfgFooTcp),
                     HandlerCall("configmap", "Deleted", cfgFooTcp, NoObject)>>,
     service   |-> <<StoreCall("create", fooNodePort),
                     StoreCall("add", fooNodePort),
                     HandlerCall("service", "Added", NoObject, fooNodePort),
                     HandlerCall("service", "Updated", fooNodePort, fooMoved)>>,
     endpoints |-> <<StoreCall("add", epFooOneReady),
                     HandlerCall("endpoints", "Added", NoObject, epFooOneReady)>>,
     node      |-> <<NodeCall(<<node0, node1>>, FALSE),
                     NodeCall(<<node0, node1, node2>>, TRUE)>>]

InitLocks == \E mode \in BOOLEAN : Started(mode, 0, LockCalls)

NextLocks ==
    \/ ServiceCreate
    \/ \E t \in {"service", "endpoints"} : StoreAddItem(t)
    \/ ConfigMapBegin
    \/ ConfigMapNodesLock
    \/ ConfigMapNodesRead
    \/ ConfigMapEndpoints
    \/ ConfigMapLock
    \/ ConfigMapStore
    \/ ServiceBegin
    \/ ServiceLock
    \/ ServiceNodesLock
    \/ ServiceApply
    \/ EndpointsBegin
    \/ EndpointsLock
    \/ EndpointsApply
    \/ NodeBegin
    \/ NodeLockFirst
    \/ NodeLockSecond
    \/ NodeApply
    \/ \E t \in Threads : OutputLock(t)
    \/ \E t \in Threads : OutputSend(t)
    \/ \E t \in Threads : OutputWait(t, {"done"})

SpecLocks == InitLocks /\ [][NextLocks]_vars

(***************************************************************************)
(* Properties of the registry and of the emitted document                  *)
(***************************************************************************)
\* C1: after every event, every registry entry stored under the key
\* (serviceName, servicePort, namespace) has Backend.serviceName equal to the
\* key's serviceName and Backend.servicePort equal to the key's servicePort.
KeyMatchesBackend ==
    \A k \in DOMAIN virtualServers :
        /\ virtualServers[k].ServiceName = k.ServiceName
        /\ virtualServers[k].ServicePort = k.ServicePort

\* a ConfigMap Updated event moved a declaration to another backend while
\* another declaration is registered
KeyMatchesBackendWitness ==
    /\ ev.kind = "configmap"
    /\ ev.changeType = "Updated"
    /\ serviceKey(SFoo, 8080, namespace) \in DOMAIN virtualServers
    /\ serviceKey(SFoo, 80, namespace) \notin DOMAIN virtualServers
    /\ Cardinality(DOMAIN virtualServers) = 2

\* the declarations of the registry that are active
ActiveDeclarations ==
    {virtualServers[k] : k \in {x \in DOMAIN virtualServers :
                                    virtualServers[x].PoolMemberPort # -1}}

\* the declarations of the document handed to the writer last
EmittedDeclarations == {written.services[i] : i \in 1..Len(written.services)}

\* C2: every document handed to the writer contains exactly the registry
\* entries whose poolMemberPort is not -1: no inactive entry is emitted and no
\* active entry is left out.
EmittedExactlyActive ==
    ev.sends = 1 =>
        /\ written.sent
        /\ written.name = "services"
        /\ EmittedDeclarations = ActiveDeclarations
        /\ Len(written.services) = Cardinality(ActiveDeclarations)

\* a document was emitted for a registry with an active and an inactive entry
EmittedExactlyActiveWitness ==
    /\ ev.sends = 1
    /\ Len(written.services) >= 1
    /\ \E k \in DOMAIN virtualServers : virtualServers[k].PoolMemberPort = -1

\* C3: in every document handed to the writer, each emitted declaration's
\* poolMemberAddrs is a sequence (possibly empty) and never null.
EmittedAddrsNeverNull ==
    \A i \in 1..Len(written.services) :
        ~written.services[i].PoolMemberAddrs.isNil

RECURSIVE SortConfigs(_)
SortConfigs(s) ==
    IF Len(s) <= 1 THEN s
    ELSE LET rest == SortConfigs(Tail(s))
             before == SelectSeq(rest, LAMBDA x : Less(x, Head(s)))
             after == SelectSeq(rest, LAMBDA x : ~Less(x, Head(s)))
         IN  before \o <<Head(s)>> \o after

\* (serviceName, servicePort) of a strictly before that of b
KeyBefore(a, b) ==
    \/ StrLess(a.ServiceName, b.ServiceName)
    \/ /\ ~StrLess(b.ServiceName, a.ServiceName)
       /\ a.ServicePort < b.ServicePort

ForeignNamespaceIgnored ==
    [][(ev'.foreign /\ ev'.kind \in {"configmap", "service"}) =>
           /\ virtualServers' = virtualServers
           /\ written' = written
           /\ ev'.sends = 0]_vars

\* a Service event of a foreign namespace arrived for a service name and
\* port the registry holds a declaration for
ForeignNamespaceIgnoredWitness ==
    /\ ev.foreign
    /\ ev.kind = "service"
    /\ serviceKey(SFoo, 80, namespace) \in DOMAIN virtualServers
    /\ written.sent

\* C6: in NodePort mode, after any sequence of ConfigMap, Service and Node
\* events processed one at a time, every active registry entry whose Service
\* exists with type NodePort and has a port equal to the entry's servicePort
\* has poolMemberAddrs equal to the current node cache and poolMemberPort
\* equal to that port's nodePort.
NodePortResolved ==
    isNodePort =>
        \A k \in DOMAIN virtualServers :
            LET key == StoreKey(k.Namespace, k.ServiceName) IN
            (/\ virtualServers[k].PoolMemberPort # -1
             /\ key \in DOMAIN kubeServices
             /\ kubeServices[key].Type = "NodePort") =>
                \A i \in 1..Len(kubeServices[key].Ports) :
                    kubeServices[key].Ports[i].Port = k.ServicePort =>
                        /\ virtualServers[k].PoolMemberAddrs = oldNodes
                        /\ virtualServers[k].PoolMemberPort =
                               kubeServices[key].Ports[i].NodePort

\* a node update changed the cache while a declaration was resolved against
\* a NodePort Service
NodePortResolvedWitness ==
    /\ isNodePort
    /\ ev.kind = "node"
    /\ ev.sends = 1
    /\ Len(oldNodes.elems) = 2
    /\ \E k \in DOMAIN virtualServers :
           /\ virtualServers[k].PoolMemberPort = 30002
           /\ StoreKey(k.Namespace, k.ServiceName) \in DOMAIN kubeServices

\* the "<ip>:<port>" strings of the ready addresses of the subset ports of
\* eps named portName
ReadyIpPorts(portName, eps) ==
    {eps.Subsets[i].Addresses[a] \o <<58>> \o Itoa(eps.Subsets[i].Ports[p].Port) :
        <<i, a, p>> \in {t \in (1..Len(eps.Subsets)) \X (1..4) \X (1..4) :
                            /\ t[2] <= Len(eps.Subsets[t[1]].Addresses)
                            /\ t[3] <= Len(eps.Subsets[t[1]].Ports)
                            /\ eps.Subsets[t[1]].Ports[t[3]].Name = portName}}

\* slice is the ascending list of the strings of the set S
AscendingListOf(slice, S) ==
    /\ ~slice.isNil
    /\ {slice.elems[i] : i \in 1..Len(slice.elems)} = S
    /\ \A i, j \in 1..Len(slice.elems) :
           i < j => StrLess(slice.elems[i], slice.elems[j])

\* C7: in Cluster mode, after any sequence of ConfigMap, Service and
\* Endpoints events delivered one at a time through the stores, every
\* registry entry whose Service is in the service store (with a port equal to
\* servicePort) and whose Endpoints object is in the endpoints store has
\* poolMemberPort 0 and poolMemberAddrs equal to the ascending list of
\* "<ip>:<port>" over the ready addresses of each subset port whose name
\* equals the Service port's name.
ClusterResolved ==
    ~isNodePort =>
        \A k \in DOMAIN virtualServers :
            LET key == StoreKey(k.Namespace, k.ServiceName) IN
            (key \in DOMAIN serviceStore /\ key \in DOMAIN endptStore) =>
                \A i \in 1..Len(serviceStore[key].Ports) :
                    serviceStore[key].Ports[i].Port = k.ServicePort =>
                        /\ virtualServers[k].PoolMemberPort = 0
                        /\ AscendingListOf(
                               virtualServers[k].PoolMemberAddrs,
                               ReadyIpPorts(serviceStore[key].Ports[i].Name,
                                            endptStore[key]))

\* an Endpoints event left a declaration with two pool members
ClusterResolvedWitness ==
    /\ ~isNodePort
    /\ ev.kind = "endpoints"
    /\ \E k \in DOMAIN virtualServers :
           /\ StoreKey(k.Namespace, k.ServiceName) \in DOMAIN serviceStore
           /\ StoreKey(k.Namespace, k.ServiceName) \in DOMAIN endptStore
           /\ ~virtualServers[k].PoolMemberAddrs.isNil
           /\ Len(virtualServers[k].PoolMemberAddrs.elems) = 2

\* a declaration resolved against the API server's NodePort Service and the
\* node cache
ResolvedNodePort(k, cfg) ==
    LET key == StoreKey(k.Namespace, k.ServiceName) IN
    /\ key \in DOMAIN kubeServices
    /\ cfg.PoolMemberAddrs = oldNodes
    /\ \E i \in 1..Len(kubeServices[key].Ports) :
           /\ kubeServices[key].Ports[i].Port = k.ServicePort
           /\ kubeServices[key].Ports[i].NodePort = cfg.PoolMemberPort

\* C8: in NodePort mode, when ProcessNodeUpdate, ProcessConfigMapUpdate
\* (Added) and ProcessServiceUpdate (Added) run concurrently for the same
\* services, then once all calls have returned every active registry entry
\* and the last emitted document have poolMemberAddrs equal to the final node
\* cache and poolMemberPort equal to the Service's nodePort.
ConcurrentNodePortResolved ==
    (isNodePort /\ AllReturned) =>
        /\ \A k \in DOMAIN virtualServers :
               virtualServers[k].PoolMemberPort # -1 =>
                   ResolvedNodePort(k, virtualServers[k])
        /\ \A i \in 1..Len(written.services) :
               ResolvedNodePort(
                   serviceKey(written.services[i].ServiceName,
                              written.services[i].ServicePort, namespace),
                   written.services[i])

\* C9: in Cluster mode, when an Endpoints Added, a ConfigMap Added and a
\* Service Added for the same service are delivered concurrently through
\* their stores, then once all callbacks have returned the registry entry
\* has poolMemberPort 0 and poolMemberAddrs equal to the sorted ready
\* "<ip>:<port>" list of the Endpoints.
ConcurrentClusterResolved ==
    (~isNodePort /\ AllReturned) =>
        \A k \in DOMAIN virtualServers :
            LET key == StoreKey(k.Namespace, k.ServiceName) IN
            /\ key \in DOMAIN serviceStore
            /\ key \in DOMAIN endptStore
            /\ virtualServers[k].PoolMemberPort = 0
            /\ \E i \in 1..Len(serviceStore[key].Ports) :
                   /\ serviceStore[key].Ports[i].Port = k.ServicePort
                   /\ AscendingListOf(
                          virtualServers[k].PoolMemberAddrs,
                          ReadyIpPorts(serviceStore[key].Ports[i].Name,
                                       endptStore[key]))

\* C10: no thread requests the registry mutex while holding the node-cache
\* mutex: a thread that requests a mutex while holding one holds the
\* registry mutex and requests the node-cache mutex.  No interleaving of the
\* calls reaches a state where a thread has calls left and no thread can
\* take a step.
LockOrderNoDeadlock ==
    /\ \A t \in Threads :
           (Requested(t) # "none" /\ \E mu \in DOMAIN locks : locks[mu] = t) =>
               (locks["registry"] = t /\ Requested(t) = "cache")
    /\ ~AllReturned => ENABLED NextLocks

\* processService waits for the node-cache mutex, which processConfigMap's
\* getNodesFromCache holds, while ProcessNodeUpdate waits for the registry
LockOrderNoDeadlockWitness ==
    /\ locks["registry"] = "service"
    /\ Requested("service") = "cache"
    /\ locks["cache"] = "configmap"
    /\ Requested("node") = "registry"

\* the thread holding the registry mutex took the step: its position changed
HolderStepped ==
    /\ locks["registry"] \in Threads
    /\ pc'[locks["registry"]] # pc[locks["registry"]]

\* C11: every registry mutation and every construction of an emitted
\* document is a step of the thread that holds the registry mutex; the
\* document equals the active subset of the registry at the instant it is
\* built; and while a thread waits for the writer's answer it still holds the
\* mutex and the registry still has the active subset the document shows.
RegistryUnderMutex ==
    [][/\ virtualServers' # virtualServers => HolderStepped
       /\ written'.response = "pending" =>
              /\ written' # written => HolderStepped
              /\ \E t \in Threads : pc'[t] = "out_wait" /\ locks'["registry"] = t
              /\ EmittedDeclarations' = ActiveDeclarations'
              /\ Len(written'.services) = Cardinality(ActiveDeclarations')]_vars

\* a handler waits for the writer's answer to a non-empty document while
\* two other handlers wait for the registry mutex
RegistryUnderMutexWitness ==
    /\ pc["configmap"] = "out_wait"
    /\ Len(written.services) >= 1
    /\ pc["service"] = "svc_registry"
    /\ pc["node"] = "node_first"

\* C12: a handler call that mutates the registry goes on to outputConfig
\* (or, in ProcessNodeUpdate, has called outputConfigLocked) and returns only
\* after its SendSection call; so once all concurrent calls have returned
\* the payload of the latest SendSection call is the active subset of the
\* final registry.
MutationsEmitted ==
    /\ [][virtualServers' # virtualServers =>
              \E t \in Threads : /\ pc'[t] # pc[t]
                                 /\ pc'[t] \in {"out_registry", "out_wait"}]_vars
    /\ [][\A t \in Threads :
              /\ pc[t] = "out_registry" => pc'[t] \in {"out_registry", "out_send"}
              /\ pc[t] = "out_send" => pc'[t] \in {"out_send", "out_wait"}]_vars
    /\ [](AllReturned =>
              IF written.sent
              THEN /\ EmittedDeclarations = ActiveDeclarations
                   /\ Len(written.services) = Cardinality(ActiveDeclarations)
              ELSE virtualServers = EmptyMap)

\* all callbacks have returned; the latest document holds both declarations,
\* one of them with the pool member an Endpoints callback resolved
MutationsEmittedWitness ==
    /\ AllReturned
    /\ Len(written.services) = 2
    /\ \E i \in 1..2 : written.services[i].PoolMemberAddrs = MkSlice(<<Ip(1) \o <<58>> \o Itoa(80)>>)

\* C13: whichever way the writer answers (an error from SendSection, a
\* value on doneCh, a value on errCh, or nothing for a second), a thread
\* waiting in outputConfigLocked can go on, and when it does its call returns
\* with both mutexes released, so that another handler can lock the registry.
OutputReturns ==
    /\ [](\A t \in Threads :
              pc[t] = "out_wait" =>
                  /\ written.response = "pending"
                  /\ \A r \in Responses : ENABLED OutputWait(t, {r}))
    /\ [][\A t \in Threads :
              (pc[t] = "out_wait" /\ pc'[t] # "out_wait") =>
                  /\ pc'[t] = "idle"
                  /\ written'.response \in Responses
                  /\ locks'["registry"] = "none"
                  /\ \A mu \in DOMAIN locks : locks'[mu] # t]_vars

\* the writer did not answer within the second, and another handler has
\* locked the registry since
OutputReturnsWitness ==
    /\ written.response = "timeout"
    /\ locks["registry"] = "service"
    /\ pc["service"] = "svc_apply"

(***************************************************************************)
(* Properties of the ConfigMap handler                                     *)
(***************************************************************************)
\* the objects an event e carries: the ChangedObject's side the handler
\* reads, or the items of a Replaced list
Carried(e) ==
    IF e.changeType = "Replaced" THEN {e.list[i] : i \in 1..Len(e.list)}
    ELSE {Changed(e.changeType, e.old, e.new)}

\* C14: a ConfigMap event of any change type whose payload is invalid (no
\* schema key, no data key, malformed JSON, schema violation) leaves the
\* registry as it was, entries stored for a valid version included, reports
\* no update and emits nothing.
InvalidConfigMapDropped ==
    [][(/\ ev'.kind = "configmap"
        /\ Carried(ev') # {}
        /\ \A cm \in Carried(ev') :
               ~(/\ cm.Data.hasSchema
                 /\ cm.Data.hasData
                 /\ cm.Data.wellFormed
                 /\ cm.Data.valid)) =>
           /\ virtualServers' = virtualServers
           /\ written' = written
           /\ ev'.sends = 0]_vars

\* an Updated event brought a payload without data key for a ConfigMap whose
\* valid version is in the registry, resolved and emitted
InvalidConfigMapDroppedWitness ==
    /\ ev.kind = "configmap"
    /\ ev.changeType = "Updated"
    /\ ev.old = cfgFoo
    /\ ~ev.new.Data.hasData
    /\ serviceKey(SFoo, 80, namespace) \in DOMAIN virtualServers
    /\ virtualServers[serviceKey(SFoo, 80, namespace)].PoolMemberAddrs # NilSlice
    /\ Len(written.services) = 1

\* cm is in the watched namespace and its payload parses and validates
ValidConfigMap(cm) ==
    /\ cm.Namespace = namespace
    /\ cm.Data.hasSchema /\ cm.Data.hasData /\ cm.Data.wellFormed /\ cm.Data.valid

\* the registry key of the declaration cm carries
DeclaredKey(cm) == serviceKey(cm.Data.ServiceName, cm.Data.ServicePort, namespace)

\* C15: a valid ConfigMap Added event for a key the registry already holds
\* overwrites the entry, in either mode: the registry keeps its keys, and the
\* entry has the frontend fields (mode, virtual server name) of the added
\* declaration.
AddedOverwrites ==
    [][(/\ ev'.kind = "configmap"
        /\ ev'.changeType = "Added"
        /\ ValidConfigMap(ev'.new)
        /\ DeclaredKey(ev'.new) \in DOMAIN virtualServers) =>
           /\ DOMAIN virtualServers' = DOMAIN virtualServers
           /\ virtualServers'[DeclaredKey(ev'.new)].Mode = ev'.new.Data.Mode
           /\ virtualServers'[DeclaredKey(ev'.new)].VirtualServerName
                  = namespace \o <<95>> \o ev'.new.Name
           /\ \A k \in DOMAIN virtualServers \ {DeclaredKey(ev'.new)} :
                  virtualServers'[k] = virtualServers[k]]_vars

\* the tcp declaration for foo:80 was added while the registry held the http
\* one, in each mode
AddedOverwritesWitness ==
    /\ ev.kind = "configmap"
    /\ ev.changeType = "Added"
    /\ ev.new = cfgFooTcp
    /\ serviceKey(SFoo, 80, namespace) \in DOMAIN ev.before
    /\ Cardinality(DOMAIN ev.before) = 2
    /\ virtualServers[serviceKey(SFoo, 80, namespace)].Mode = "tcp"

\* a ConfigMap Updated event whose old and new payloads are both valid
ValidUpdate(e) ==
    /\ e.kind = "configmap"
    /\ e.changeType = "Updated"
    /\ ValidConfigMap(e.new)
    /\ ValidConfigMap(e.old)

DeletedRemovesExactlyKey ==
    [][(/\ ev'.kind = "configmap"
        /\ ev'.changeType = "Deleted"
        /\ ValidConfigMap(ev'.old)) =>
           /\ DOMAIN virtualServers' = DOMAIN virtualServers \ {DeclaredKey(ev'.old)}
           /\ \A k \in DOMAIN virtualServers' :
                  virtualServers'[k] = virtualServers[k]]_vars

\* the declaration for foo:80 was deleted from a registry that also held the
\* one for foo:8080, which is still there
DeletedRemovesExactlyKeyWitness ==
    /\ ev.kind = "configmap"
    /\ ev.changeType = "Deleted"
    /\ ev.old = cfgFoo
    /\ DOMAIN ev.before =
           {serviceKey(SFoo, 80, namespace), serviceKey(SFoo, 8080, namespace)}
    /\ DOMAIN virtualServers = {serviceKey(SFoo, 8080, namespace)}
    /\ ev.sends = 1

(***************************************************************************)
(* Properties of the Service handler                                       *)
(***************************************************************************)
\* the ports of a Service, and the registry keys of the watched namespace
\* that name the Service with one of the ports P
PortsOf(svc) == {svc.Ports[i].Port : i \in 1..Len(svc.Ports)}
KeysOf(svc, P) ==
    {k \in DOMAIN virtualServers :
        k.ServiceName = svc.Name /\ k.Namespace = namespace /\ k.ServicePort \in P}

NonNodePortServiceIgnored ==
    [][(/\ isNodePort
        /\ ev'.kind = "service"
        /\ Carried(ev') # {}
        /\ \A svc \in Carried(ev') : svc.Type # "NodePort") =>
           /\ virtualServers' = virtualServers
           /\ written' = written
           /\ ev'.sends = 0]_vars

\* C20: a Service Deleted event marks every registry entry for the
\* Service's ports inactive (poolMemberPort -1, poolMemberAddrs nil) and
\* removes none.  In Cluster mode, a Service Added event for a Service whose
\* Endpoints are in the endpoints store sets each entry to poolMemberPort 0
\* with the sorted ready "<ip>:<port>" list of the Endpoints; and deleting a
\* Service and adding it again while its Endpoints stay in the store gives
\* each entry the poolMemberAddrs it had before the delete.
ServiceDeletedThenAdded ==
    /\ [][(/\ ev'.kind = "service"
            /\ ev'.changeType = "Deleted"
            /\ ev'.old.Namespace = namespace) =>
               /\ DOMAIN virtualServers' = DOMAIN virtualServers
               /\ \A k \in DOMAIN virtualServers :
                      virtualServers'[k] =
                          IF k \in KeysOf(ev'.old, PortsOf(ev'.old))
                          THEN [virtualServers[k] EXCEPT !.PoolMemberPort = -1,
                                                         !.PoolMemberAddrs = NilSlice]
                          ELSE virtualServers[k]]_vars
    /\ [][(/\ ~isNodePort
            /\ ev'.kind = "service"
            /\ ev'.changeType = "Added"
            /\ ev'.new.Namespace = namespace
            /\ ObjKey(ev'.new) \in DOMAIN endptStore) =>
               \A k \in KeysOf(ev'.new, PortsOf(ev'.new)) :
                   /\ virtualServers'[k].PoolMemberPort = 0
                   /\ \E i \in 1..Len(ev'.new.Ports) :
                          /\ ev'.new.Ports[i].Port = k.ServicePort
                          /\ AscendingListOf(
                                 virtualServers'[k].PoolMemberAddrs,
                                 ReadyIpPorts(ev'.new.Ports[i].Name,
                                              endptStore[ObjKey(ev'.new)]))]_vars
    /\ [](~isNodePort =>
              \A key \in (DOMAIN serviceStore) \cap (DOMAIN endptStore) :
                  LET svc == serviceStore[key]
                      deleted == processService(virtualServers, "Deleted", svc,
                                                NoObject, isNodePort, endptStore,
                                                oldNodes)
                      added == processService(deleted.m, "Added", NoObject, svc,
                                              isNodePort, endptStore, oldNodes)
                  IN  svc.Namespace = namespace =>
                          \A k \in KeysOf(svc, PortsOf(svc)) :
                              /\ deleted.m[k].PoolMemberPort = -1
                              /\ added.m[k].PoolMemberPort = 0
                              /\ added.m[k].PoolMemberAddrs
                                     = virtualServers[k].PoolMemberAddrs)

\* in Cluster mode the Service foo came back: the entry for foo:80, inactive
\* since the Service was deleted, has the two pool members of the Endpoints
\* again
ServiceDeletedThenAddedWitness ==
    /\ ~isNodePort
    /\ ev.kind = "service"
    /\ ev.changeType = "Added"
    /\ ev.new = fooTwoPorts
    /\ serviceKey(SFoo, 80, namespace) \in DOMAIN ev.before
    /\ ev.before[serviceKey(SFoo, 80, namespace)] = -1
    /\ virtualServers[serviceKey(SFoo, 80, namespace)].PoolMemberPort = 0
    /\ Len(virtualServers[serviceKey(SFoo, 80, namespace)].PoolMemberAddrs.elems) = 2

(***************************************************************************)
(* Cluster mode: the Service and the Endpoints of declarations that are    *)
(* already in the registry arrive on their two threads                     *)
(***************************************************************************)
\* the registry after the ConfigMaps of foo:80 and bar:80 were added with no
\* Service at the API server and empty stores; the Service thread then adds
\* foo and adds and deletes bar, the Endpoints thread adds the Endpoints of
\* foo, each through its store
InitPartners ==
    LET one == processConfigMap(EmptyMap, "Added", NoObject, cfgFoo, FALSE,
                                EmptyMap, EmptyMap, MkSlice(<<>>)).m
        two == processConfigMap(one, "Added", NoObject, cfgBar, FALSE, EmptyMap,
                                EmptyMap, MkSlice(<<>>)).m
    IN  /\ virtualServers = two
        /\ \E o \in Orders(ActiveKeys(two)) : written = Respond(Section(two, o), "done")
        /\ oldNodes = MkSlice(<<>>)
        /\ kubeServices = EmptyMap
        /\ serviceStore = EmptyMap
        /\ endptStore = EmptyMap
        /\ isNodePort = FALSE
        /\ useNodeInternal = FALSE
        /\ ev = NoEvent
        /\ budget = 0
        /\ locks = [registry |-> "none", cache |-> "none"]
        /\ pc = [t \in Threads |-> "idle"]
        /\ local = [t \in Threads |-> NoLocal]
        /\ todo = [NoCalls EXCEPT
                      !["service"] =
                          <<StoreCall("add", fooNodePort),
                            HandlerCall("service", "Added", NoObject, fooNodePort),
                            StoreCall("add", barNodePort),
                            HandlerCall("service", "Added", NoObject, barNodePort),
                            StoreCall("delete", barNodePort),
                            HandlerCall("service", "Deleted", barNodePort, NoObject)>>,
                      !["endpoints"] =
                          <<StoreCall("add", epFooTwoReady),
                            HandlerCall("endpoints", "Added", NoObject,
                                        epFooTwoReady)>>]

NextPartners ==
    \/ \E t \in {"service", "endpoints"} : StoreAddItem(t)
    \/ StoreDeleteItem("service")
    \/ ServiceBegin
    \/ ServiceLock
    \/ ServiceApply
    \/ EndpointsBegin
    \/ EndpointsLock
    \/ EndpointsApply
    \/ \E t \in Threads : OutputLock(t)
    \/ \E t \in Threads : OutputSend(t)
    \/ \E t \in Threads : OutputWait(t, {"done"})

SpecPartners == InitPartners /\ [][NextPartners]_vars

(***************************************************************************)
(* Properties of the Endpoints and Node handlers                           *)
(***************************************************************************)
\* the registry keys of the ports of the Service stored for eps, each with
\* the name of its port
EndpointsTargets(eps) ==
    IF ObjKey(eps) \notin DOMAIN serviceStore THEN {}
    ELSE LET ports == serviceStore[ObjKey(eps)].Ports
         IN  {kp \in {[k |-> serviceKey(eps.Name, ports[i].Port, eps.Namespace),
                       name |-> ports[i].Name] : i \in 1..Len(ports)} :
                 kp.k \in DOMAIN virtualServers}

\* the entry under kp.k does not hold the list computed from eps
Differs(kp, eps) ==
    ~AscendingListOf(virtualServers[kp.k].PoolMemberAddrs,
                     ReadyIpPorts(kp.name, eps))

\* C21: an Endpoints Added, Updated or Replaced event whose Service is in the
\* service store sets each registry entry of a port of that Service to
\* poolMemberPort 0 and the newly computed list exactly when that list
\* differs from the entry's poolMemberAddrs, and otherwise leaves the entry
\* as it was; it emits exactly when some entry was updated.  An Endpoints
\* Deleted event sets each such entry to poolMemberPort -1 and a nil
\* poolMemberAddrs.
EndpointsUpdateOnDifference ==
    [][(ev'.kind = "endpoints") =>
          IF ev'.changeType = "Deleted"
          THEN \A kp \in EndpointsTargets(ev'.old) :
                   virtualServers'[kp.k] =
                       [virtualServers[kp.k] EXCEPT !.PoolMemberPort = -1,
                                                    !.PoolMemberAddrs = NilSlice]
          ELSE /\ \A eps \in Carried(ev') : \A kp \in EndpointsTargets(eps) :
                      IF Differs(kp, eps)
                      THEN /\ virtualServers'[kp.k].PoolMemberPort = 0
                           /\ AscendingListOf(virtualServers'[kp.k].PoolMemberAddrs,
                                              ReadyIpPorts(kp.name, eps))
                           /\ [virtualServers'[kp.k] EXCEPT
                                   !.PoolMemberPort = 0,
                                   !.PoolMemberAddrs = NilSlice]
                                = [virtualServers[kp.k] EXCEPT
                                       !.PoolMemberPort = 0,
                                       !.PoolMemberAddrs = NilSlice]
                      ELSE virtualServers'[kp.k] = virtualServers[kp.k]
               /\ ev'.sends = 1 <=>
                      \E eps \in Carried(ev') : \E kp \in EndpointsTargets(eps) :
                          Differs(kp, eps)]_vars

\* an Endpoints Updated event that brought the list the entry of foo:80
\* already held: nothing was emitted and the entry is resolved as before
EndpointsUpdateOnDifferenceWitness ==
    /\ ev.kind = "endpoints"
    /\ ev.changeType = "Updated"
    /\ ev.sends = 0
    /\ ObjKey(ev.new) \in DOMAIN serviceStore
    /\ serviceKey(SFoo, 80, namespace) \in DOMAIN virtualServers
    /\ ev.before[serviceKey(SFoo, 80, namespace)] = 0
    /\ AscendingListOf(virtualServers[serviceKey(SFoo, 80, namespace)].PoolMemberAddrs,
                       ReadyIpPorts(SPort0, ev.new))
    /\ Len(virtualServers[serviceKey(SFoo, 80, namespace)].PoolMemberAddrs.elems) > 0

\* the addresses of the selected type of the schedulable nodes of a list
SelectedAddrs(nodes, internal) ==
    {nodes[i].Addresses[j].Address :
        <<i, j>> \in {t \in (1..Len(nodes)) \X (1..3) :
                         /\ ~nodes[t[1]].Unschedulable
                         /\ t[2] <= Len(nodes[t[1]].Addresses)
                         /\ nodes[t[1]].Addresses[t[2]].Type
                                = IF internal THEN "InternalIP" ELSE "ExternalIP"}}

\* C22: ProcessNodeUpdate changes state exactly when the sorted address list
\* extracted from the polled nodes differs from the node cache.  When it
\* differs, every registry entry's poolMemberAddrs becomes the new list
\* (nothing else of the entry changes), one emission is made and the node
\* cache becomes the new list; when it is equal, or the poll failed, the
\* registry, the node cache and the last emission are unchanged and nothing
\* is emitted.
NodeUpdateOnDifference ==
    [][(ev'.kind = "node") =>
          LET S == SelectedAddrs(ev'.list, useNodeInternal)
          IN  IF ev'.err \/ AscendingListOf(oldNodes, S)
              THEN /\ virtualServers' = virtualServers
                   /\ oldNodes' = oldNodes
                   /\ written' = written
                   /\ ev'.sends = 0
              ELSE /\ AscendingListOf(oldNodes', S)
                   /\ oldNodes' # oldNodes
                   /\ DOMAIN virtualServers' = DOMAIN virtualServers
                   /\ \A k \in DOMAIN virtualServers :
                          virtualServers'[k] =
                              [virtualServers[k] EXCEPT !.PoolMemberAddrs = oldNodes']
                   /\ ev'.sends = 1
                   /\ written'.response # "none"]_vars

\* the same node list was delivered twice in a row: the second poll changed
\* and emitted nothing, and the declaration keeps the two addresses
NodeUpdateOnDifferenceWitness ==
    /\ ev.kind = "node"
    /\ ~ev.err
    /\ ev.sends = 0
    /\ Len(oldNodes.elems) = 2
    /\ AscendingListOf(oldNodes, SelectedAddrs(ev.list, useNodeInternal))
    /\ \E k \in DOMAIN virtualServers :
           /\ virtualServers[k].PoolMemberPort > 0
           /\ virtualServers[k].PoolMemberAddrs = oldNodes

\* C23: the address list extracted from a node list holds exactly the
\* addresses of the configured type (ExternalIP unless useNodeInternal,
\* then InternalIP) of the nodes that are not Unschedulable, and is an empty
\* list, not a nil one, for an empty node list: after every successful poll
\* the node cache is the ascending list of those addresses.
NodeAddressesSelected ==
    (ev.kind = "node" /\ ~ev.err) =>
        /\ ~oldNodes.isNil
        /\ \A i \in 1..Len(oldNodes.elems) :
               \E n \in 1..Len(ev.list) : \E a \in 1..Len(ev.list[n].Addresses) :
                   /\ ev.list[n].Addresses[a].Address = oldNodes.elems[i]
                   /\ ~ev.list[n].Unschedulable
                   /\ ev.list[n].Addresses[a].Type
                          = IF useNodeInternal THEN "InternalIP" ELSE "ExternalIP"
        /\ \A n \in 1..Len(ev.list) : \A a \in 1..Len(ev.list[n].Addresses) :
               (/\ ~ev.list[n].Unschedulable
                /\ ev.list[n].Addresses[a].Type
                       = IF useNodeInternal THEN "InternalIP" ELSE "ExternalIP")
               => \E i \in 1..Len(oldNodes.elems) :
                      oldNodes.elems[i] = ev.list[n].Addresses[a].Address
        /\ Len(ev.list) = 0 => oldNodes = MkSlice(<<>>)

\* with InternalIP selected, a poll of a node that has a Hostname, an
\* ExternalIP and an InternalIP address, an unschedulable node and a node
\* with an ExternalIP only left the one InternalIP address in the cache
NodeAddressesSelectedWitness ==
    /\ ev.kind = "node"
    /\ ~ev.err
    /\ useNodeInternal
    /\ ev.list = <<node1, node0, node2>>
    /\ oldNodes = MkSlice(<<NodeIp(4)>>)

(***************************************************************************)
(* What only ConfigMap events change                                       *)
(***************************************************************************)
\* a declaration without the two fields the backend resolution writes
Unresolved(cfg) == [cfg EXCEPT !.PoolMemberPort = 0, !.PoolMemberAddrs = NilSlice]

\* C24: Service, Endpoints and Node events of any change type never add or
\* remove a registry key; they change at most poolMemberPort and
\* poolMemberAddrs of the entries there are.
KeysOnlyByConfigMap ==
    [][(ev'.kind \in {"service", "endpoints", "node"}) =>
          /\ DOMAIN virtualServers' = DOMAIN virtualServers
          /\ \A k \in DOMAIN virtualServers :
                 Unresolved(virtualServers'[k]) = Unresolved(virtualServers[k])]_vars

\* a Service Deleted event changed an entry (it is inactive now and an
\* emission was made) and the registry has the keys it had
KeysOnlyByConfigMapWitness ==
    /\ ev.kind = "service"
    /\ ev.changeType = "Deleted"
    /\ ev.sends = 1
    /\ DOMAIN virtualServers = DOMAIN ev.before
    /\ \E k \in DOMAIN virtualServers :
           /\ ev.before[k] # -1
           /\ virtualServers[k].PoolMemberPort = -1

\* the fields of a declaration that come from the ConfigMap's payload (Mode
\* stands for the frontend)
PayloadOf(cfg) ==
    [ServiceName |-> cfg.ServiceName, ServicePort |-> cfg.ServicePort,
     Mode |-> cfg.Mode]

SameKey(list, obj) ==
    {list[i] : i \in {j \in 1..Len(list) : ObjKey(list[j]) = ObjKey(obj)}}

\* C26: when the initial List returns several items with the same key, the
\* seeded store holds one entry for that key, and it is the listed item with
\* the numerically highest resourceVersion, whatever the order of the list.
SeedKeepsHighestVersion ==
    (pc["service"] = "run_watch") =>
        /\ Cardinality(DOMAIN serviceStore)
               = Cardinality({ObjKey(ev.list[i]) : i \in 1..Len(ev.list)})
        /\ \A i \in 1..Len(ev.list) :
               /\ ObjKey(ev.list[i]) \in DOMAIN serviceStore
               /\ serviceStore[ObjKey(ev.list[i])] \in SameKey(ev.list, ev.list[i])
               /\ \A o \in SameKey(ev.list, ev.list[i]) :
                      Version(o.ResourceVersion)
                          <= Version(serviceStore[ObjKey(ev.list[i])].ResourceVersion)

\* List returned s0 in the versions "10", "9" and "2", the highest first: the
\* store holds s0 in version "10"
SeedKeepsHighestVersionWitness ==
    /\ pc["service"] = "run_watch"
    /\ Len(ev.list) = 3
    /\ \A i \in 1..3 : ev.list[i].Name = <<115, 48>>
    /\ ev.list[1].ResourceVersion = <<49, 48>>
    /\ ev.list[2].ResourceVersion = <<57>>
    /\ ev.list[3].ResourceVersion = <<50>>
    /\ DOMAIN serviceStore = {ObjKey(ev.list[1])}
    /\ serviceStore[ObjKey(ev.list[1])].ResourceVersion = <<49, 48>>

\* C27: the Runner populates the store by Replace before it calls Watch.  A
\* Watch call is made only from the position the seed leaves the Runner in;
\* at that moment the callback made last is the Replaced callback of the
\* seed and the store has one entry for each distinct key of the listed
\* items.  A Replaced callback is made only as the return of a List call, one
\* for each.
SeedBeforeWatch ==
    /\ [][(pc'["service"] = "run_watching" /\ pc["service"] # "run_watching") =>
              /\ pc["service"] = "run_watch"
              /\ ev.kind = "service"
              /\ ev.changeType = "Replaced"
              /\ DOMAIN serviceStore
                     = {ObjKey(ev.list[i]) : i \in 1..Len(ev.list)}]_vars
    /\ [][(ev'.kind = "service" /\ ev'.changeType = "Replaced") =>
              /\ ev = RunnerNote("List")
              /\ pc["service"] = "run_listing"
              /\ pc'["service"] = "run_watch"]_vars

\* Watch has just been called and the store holds the two Services listed
SeedBeforeWatchWitness ==
    /\ pc["service"] = "run_watching"
    /\ ev = RunnerNote("Watch")
    /\ Cardinality(DOMAIN serviceStore) = 2

\* C28: each watch event is applied to the store and makes one callback:
\* Added of a new key makes the store one larger and carries Old = nil and
\* New = the object; Modified of a key the store holds leaves the size and
\* carries Old = the prior entry and New = the object; Deleted of a key the
\* store holds makes the store one smaller and carries Old = the prior entry
\* and New = nil.
WatchEventApplied ==
    [][(pc["service"] = "run_watching" /\ pc'["service"] = "run_watching") =>
          /\ ev'.kind = "service"
          /\ ev'.changeType \in {"Added", "Updated", "Deleted"}
          /\ ev'.changeType = "Added" =>
                 /\ ObjKey(ev'.new) \notin DOMAIN serviceStore
                 /\ ev'.old = NoObject
                 /\ Cardinality(DOMAIN serviceStore')
                        = Cardinality(DOMAIN serviceStore) + 1
                 /\ serviceStore'[ObjKey(ev'.new)] = ev'.new
          /\ ev'.changeType = "Updated" =>
                 /\ ObjKey(ev'.new) \in DOMAIN serviceStore
                 /\ ev'.old = serviceStore[ObjKey(ev'.new)]
                 /\ DOMAIN serviceStore' = DOMAIN serviceStore
                 /\ serviceStore'[ObjKey(ev'.new)] = ev'.new
          /\ ev'.changeType = "Deleted" =>
                 /\ ObjKey(ev'.old) \in DOMAIN serviceStore
                 /\ ev'.old = serviceStore[ObjKey(ev'.old)]
                 /\ ev'.new = NoObject
                 /\ ObjKey(ev'.old) \notin DOMAIN serviceStore'
                 /\ Cardinality(DOMAIN serviceStore')
                        = Cardinality(DOMAIN serviceStore) - 1
          /\ \A k \in DOMAIN serviceStore' :
                 k \notin {ObjKey(ev'.new), ObjKey(ev'.old)} =>
                     k \in DOMAIN serviceStore /\ serviceStore'[k] = serviceStore[k]]_vars

\* s0 was modified from version "2" to version "10": the callback carries
\* both, and the store holds the new one beside s1
WatchEventAppliedWitness ==
    /\ pc["service"] = "run_watching"
    /\ ev.kind = "service"
    /\ ev.changeType = "Updated"
    /\ ev.old.ResourceVersion = <<50>>
    /\ ev.new.ResourceVersion = <<49, 48>>
    /\ serviceStore[ObjKey(ev.new)] = ev.new
    /\ Cardinality(DOMAIN serviceStore) = 2

\* C30: when the watch stream ends or List fails and the Runner has not been
\* stopped, the Runner calls List again, every time; and each List that
\* returns re-seeds the store by Replace (the store holds exactly the keys
\* listed).
RunnerRetries ==
    /\ [](ev \in {RunnerNote("WatchEnded"), RunnerNote("ListFailed")}
              ~> (pc["service"] \in {"run_listing", "run_stopped"}))
    /\ [][(pc["service"] = "run_listing" /\ pc'["service"] # "run_stopped") =>
              \/ /\ ev' = RunnerNote("ListFailed")
                 /\ serviceStore' = serviceStore
              \/ /\ ev'.changeType = "Replaced"
                 /\ DOMAIN serviceStore'
                        = {ObjKey(ev'.list[i]) : i \in 1..Len(ev'.list)}]_vars

\* the watch stream ended with one Service in the store, and the Runner is
\* calling List again
RunnerRetriesWitness ==
    /\ pc["service"] = "run_listing"
    /\ ev = RunnerNote("List")
    /\ Cardinality(DOMAIN serviceStore) = 1

(***************************************************************************)
(* Events that arrive before their partner                                 *)
(***************************************************************************)
\* thread t has made the handler call for the Added event of obj and the
\* call has returned
AddedCompleted(t, obj) ==
    \A i \in 1..Len(todo[t]) :
        todo[t][i] # HandlerCall(t, "Added", NoObject, obj)

\* an Endpoints event processed while its Service is not in the service
\* store returns without a registry change
EndpointsWithoutService ==
    [][(/\ Idle("endpoints", "endpoints")
        /\ pc'["endpoints"] # pc["endpoints"] \/ todo'["endpoints"] # todo["endpoints"]
        /\ ObjKey(Changed(Call("endpoints").changeType, Call("endpoints").old,
                          Call("endpoints").new)) \notin DOMAIN serviceStore) =>
           /\ virtualServers' = virtualServers
           /\ written' = written
           /\ pc'["endpoints"] = "idle"
           /\ todo'["endpoints"] = Tail(todo["endpoints"])]_vars

\* once the Service Added and the Endpoints Added callbacks of foo have both
\* returned, the entry of foo:80 has poolMemberPort 0 and the ready addresses
\* of the Endpoints
PartnersResolved ==
    [](AddedCompleted("service", fooNodePort)
           /\ AddedCompleted("endpoints", epFooTwoReady) =>
              /\ virtualServers[serviceKey(SFoo, 80, namespace)].PoolMemberPort = 0
              /\ AscendingListOf(
                     virtualServers[serviceKey(SFoo, 80, namespace)].PoolMemberAddrs,
                     ReadyIpPorts(SPort0, epFooTwoReady)))

RunStopIdempotent ==
    /\ [][ev' = RunnerNote("RunAgain") =>
              /\ pc' = pc
              /\ serviceStore' = serviceStore]_vars
    /\ [][ev' \in {RunnerNote("Stop"), RunnerNote("StopAgain")} =>
              /\ pc'["service"] = "run_stopped"
              /\ serviceStore' = serviceStore]_vars
    /\ [][pc["service"] = "run_stopped" =>
              /\ pc'["service"] = "run_stopped"
              /\ ev'.kind = "runner"
              /\ serviceStore' = serviceStore]_vars

\* Run() was called on a Runner that had seeded its store and was stopped
RunStopIdempotentWitness ==
    /\ pc["service"] = "run_stopped"
    /\ ev = RunnerNote("RunAgain")
    /\ serviceStore # EmptyMap

(***************************************************************************)
(* Replaced events                                                         *)
(***************************************************************************)
\* the handler of one item of a Replaced list of the given kind, on registry m
OneItem(kind, m, item) ==
    CASE kind = "configmap" ->
             processConfigMap(m, "Replaced", NoObject, item, isNodePort,
                              kubeServices, endptStore, oldNodes)
      [] kind = "service" ->
             processService(m, "Replaced", NoObject, item, isNodePort, endptStore,
                            oldNodes)
      [] kind = "endpoints" ->
             processEndpoints(m, "Replaced", NoObject, item, serviceStore)

\* the registry after the first n items of list were processed one by one,
\* and whether one of them returned true
RECURSIVE OneByOne(_, _, _, _)
OneByOne(kind, m, list, n) ==
    IF n = 0 THEN [m |-> m, ret |-> FALSE]
    ELSE LET before == OneByOne(kind, m, list, n - 1)
             r == OneItem(kind, before.m, list[n])
         IN  [m |-> r.m, ret |-> before.ret \/ r.ret]

\* C32: a Replaced event of ConfigMaps, Services or Endpoints leaves the
\* registry as processing its items one by one in list order leaves it; if
\* one of the items returned true the configuration is emitted, once, as
\* the registry is after the last item; if none did, nothing is emitted.
ReplacedAsOneByOne ==
    [][(budget' = budget - 1 /\ ev'.changeType = "Replaced") =>
           LET r == OneByOne(ev'.kind, virtualServers, ev'.list, Len(ev'.list))
           IN  /\ virtualServers' = r.m
               /\ ev'.sends = IF r.ret THEN 1 ELSE 0
               /\ r.ret => \E o \in Orders(ActiveKeys(r.m)) :
                               written' = Respond(Section(r.m, o), "done")
               /\ ~r.ret => written' = written]_vars

\* a Replaced event of two ConfigMaps, an invalid one after a valid one, has
\* stored and emitted the declaration of the valid one
ReplacedAsOneByOneWitness ==
    /\ ev.kind = "configmap"
    /\ ev.changeType = "Replaced"
    /\ ev.list = <<cfgBar, cfgFooInvalid>>
    /\ ev.sends = 1
    /\ serviceKey(SBar, 80, namespace) \in DOMAIN virtualServers
    /\ serviceKey(SFoo, 80, namespace) \in DOMAIN virtualServers
    /\ Len(written.services) = 2

(***************************************************************************)
(* The flag processConfigMap returns                                       *)
(***************************************************************************)
\* C33: a ConfigMap Added, Updated or Deleted event emits the configuration
\* exactly when the ConfigMap of the event (the new one for Added and
\* Updated, the old one for Deleted) is in the watched namespace and its
\* payload parses and validates, whether or not the Service is at the API
\* server and whether or not the registry changes.
ConfigMapFlag ==
    [][(/\ budget' = budget - 1
        /\ ev'.kind = "configmap"
        /\ ev'.changeType \in {"Added", "Updated", "Deleted"}) =>
           LET cm == Changed(ev'.changeType, ev'.old, ev'.new)
           IN  /\ ev'.sends = 1 <=> ValidConfigMap(cm)
               /\ ev'.sends = 1 => written'.sent
               /\ ev'.sends = 0 => written' = written /\ virtualServers' = virtualServers]_vars

\* an Updated event with old = new for a declaration the registry held, with
\* no Service at the API server, was emitted
ConfigMapFlagWitness ==
    /\ ev.kind = "configmap"
    /\ ev.changeType = "Updated"
    /\ ev.old = cfgFoo
    /\ ev.new = cfgFoo
    /\ DeclaredKey(cfgFoo) \in DOMAIN ev.before
    /\ kubeServices = EmptyMap
    /\ ev.sends = 1
    /\ written.sent

(***************************************************************************)
(* Endpoints of another namespace                                          *)
(***************************************************************************)
\* C34: an Endpoints event of any change type all of whose objects are in a
\* namespace other than the watched one changes no registry entry and emits
\* nothing, also when the service store holds the Service of that namespace
\* and name and the registry holds an entry for the same name and port in
\* the watched namespace.
ForeignEndpointsIgnored ==
    [][(/\ budget' = budget - 1
        /\ ev'.kind = "endpoints"
        /\ Carried(ev') # {}
        /\ \A eps \in Carried(ev') : eps.Namespace # namespace) =>
           /\ virtualServers' = virtualServers
           /\ written' = written
           /\ ev'.sends = 0]_vars

\* the Endpoints foo of another namespace arrived while the service store
\* held the Service foo of that namespace, with port 80, and the registry an
\* entry for foo:80 in the watched namespace
ForeignEndpointsIgnoredWitness ==
    /\ ev.kind = "endpoints"
    /\ ev.changeType = "Added"
    /\ ev.new = epFooWrongNs
    /\ ObjKey(epFooWrongNs) \in DOMAIN serviceStore
    /\ \E i \in 1..Len(serviceStore[ObjKey(epFooWrongNs)].Ports) :
           serviceStore[ObjKey(epFooWrongNs)].Ports[i].Port = 80
    /\ serviceKey(SFoo, 80, namespace) \in DOMAIN virtualServers
    /\ ev.sends = 0

(***************************************************************************)
(* Node updates and inactive declarations                                  *)
(***************************************************************************)
\* C35 as stated: a node update changes no entry's poolMemberPort, and an
\* inactive entry (poolMemberPort -1) whose poolMemberAddrs is nil keeps it
\* nil.
NodeUpdateOnlyActive ==
    [][(budget' = budget - 1 /\ ev'.kind = "node") =>
           \A k \in DOMAIN virtualServers :
               /\ k \in DOMAIN virtualServers'
               /\ virtualServers'[k].PoolMemberPort = virtualServers[k].PoolMemberPort
               /\ (/\ virtualServers[k].PoolMemberPort = -1
                   /\ virtualServers[k].PoolMemberAddrs = NilSlice) =>
                      virtualServers'[k].PoolMemberAddrs = NilSlice]_vars

(***************************************************************************)
(* One SendSection call per outputConfig call                              *)
(***************************************************************************)
\* C36: a thread inside outputConfig calls SendSection once, with the
\* section name "services", and whatever the writer's answer (an error
\* returned at once, doneCh, errCh, no answer within the second) the call
\* then returns without sending again; a section reaches the writer only
\* by that step or by the outputConfigLocked call of ProcessNodeUpdate.
SendSectionOnce ==
    [][/\ \A t \in Threads :
              /\ (pc[t] = "out_send" /\ pc'[t] # "out_send") =>
                     /\ pc'[t] = "out_wait"
                     /\ written'.sent
                     /\ written'.name = "services"
                     /\ written'.response = "pending"
              /\ (pc[t] = "out_wait" /\ pc'[t] # "out_wait") =>
                     /\ pc'[t] = "idle"
                     /\ todo'[t] = Tail(todo[t])
                     /\ written'.response \in Responses
                     /\ written'.name = "services"
                     /\ written'.services = written.services
       /\ written'.response = "pending" =>
              \/ written' = written
              \/ \E t \in Threads : /\ pc[t] \in {"out_send", "node_apply"}
                                    /\ pc'[t] = "out_wait"]_vars

\* every call has returned and the last section sent was not answered
\* within the second
SendSectionOnceWitness ==
    /\ \A t \in Threads : pc[t] = "idle" /\ todo[t] = <<>>
    /\ written.sent
    /\ written.name = "services"
    /\ written.response = "timeout"

(***************************************************************************)
(* The virtual server name                                                 *)
(***************************************************************************)
\* "<watched namespace>_<name>"
NameFor(cmName) == namespace \o <<95>> \o cmName

\* C37: after a ConfigMap Added, Updated or Replaced event the entry of
\* every valid ConfigMap of the event is named "<watched namespace>_<name>"
\* after a ConfigMap of the event that declares its key, and every entry the
\* event left in place keeps its name; Service, Endpoints and Node events
\* keep the keys and change no entry's name.
VirtualServerNamed ==
    [][/\ (/\ budget' = budget - 1
           /\ ev'.kind = "configmap"
           /\ ev'.changeType \in {"Added", "Updated", "Replaced"}) =>
              /\ \A cm \in Carried(ev') :
                     ValidConfigMap(cm) =>
                         /\ DeclaredKey(cm) \in DOMAIN virtualServers'
                         /\ virtualServers'[DeclaredKey(cm)].VirtualServerName
                                \in {NameFor(c.Name) :
                                        c \in {x \in Carried(ev') :
                                                  /\ ValidConfigMap(x)
                                                  /\ DeclaredKey(x) = DeclaredKey(cm)}}
              /\ \A k \in DOMAIN virtualServers' :
                     \/ \E cm \in Carried(ev') : ValidConfigMap(cm) /\ DeclaredKey(cm) = k
                     \/ /\ k \in DOMAIN virtualServers
                        /\ virtualServers'[k].VirtualServerName
                               = virtualServers[k].VirtualServerName
       /\ (/\ budget' = budget - 1
           /\ ev'.kind \in {"service", "endpoints", "node"}) =>
              /\ DOMAIN virtualServers' = DOMAIN virtualServers
              /\ \A k \in DOMAIN virtualServers :
                     virtualServers'[k].VirtualServerName
                         = virtualServers[k].VirtualServerName]_vars

\* a Service event has re-resolved and emitted the entry that the ConfigMap
\* "fm" inserted for foo:80, and the entry is still named after "fm"
VirtualServerNamedWitness ==
    /\ ev.kind = "service"
    /\ ev.sends = 1
    /\ serviceKey(SFoo, 80, namespace) \in DOMAIN virtualServers
    /\ virtualServers[serviceKey(SFoo, 80, namespace)].VirtualServerName
           = NameFor(cfgFoo.Name)
    /\ virtualServers[serviceKey(SFoo, 80, namespace)].PoolMemberPort
           # ev.before[serviceKey(SFoo, 80, namespace)]

(***************************************************************************)
(* Endpoints events in NodePort mode                                       *)
(***************************************************************************)
\* C38 as stated: in NodePort mode an Endpoints Added, Updated or Deleted
\* event leaves poolMemberPort and poolMemberAddrs of every entry of its
\* service that is resolved to a nodePort and the node cache as they are.
EndpointsKeepNodePort ==
    [][(/\ budget' = budget - 1
        /\ isNodePort
        /\ ev'.kind = "endpoints"
        /\ ev'.changeType \in {"Added", "Updated", "Deleted"}) =>
           LET eps == Changed(ev'.changeType, ev'.old, ev'.new)
           IN  \A k \in DOMAIN virtualServers :
                   (/\ k.ServiceName = eps.Name
                    /\ virtualServers[k].PoolMemberPort > 0
                    /\ virtualServers[k].PoolMemberAddrs = oldNodes) =>
                       /\ k \in DOMAIN virtualServers'
                       /\ virtualServers'[k].PoolMemberPort
                              = virtualServers[k].PoolMemberPort
                       /\ virtualServers'[k].PoolMemberAddrs
                              = virtualServers[k].PoolMemberAddrs]_vars

(***************************************************************************)
(* The registry after a ConfigMap Replaced event                           *)
(***************************************************************************)
\* C39 as stated: after a ConfigMap Replaced event the keys of the registry
\* are the keys declared by the valid ConfigMaps of the watched namespace
\* in the list of the event.
ReplacedKeepsOnlyListed ==
    [][(/\ budget' = budget - 1
        /\ ev'.kind = "configmap"
        /\ ev'.changeType = "Replaced") =>
           DOMAIN virtualServers'
               = {DeclaredKey(cm) : cm \in {x \in Carried(ev') : ValidConfigMap(x)}}]_vars

(***************************************************************************)
(* Two ConfigMaps declaring one backend                                    *)
(***************************************************************************)
\* C40 as stated: a ConfigMap event removes an entry only if the entry was
\* last written by the ConfigMap of the event, that is, only if the entry's
\* virtualServerName is "<watched namespace>_<name of that ConfigMap>".
RemovedOnlyByWriter ==
    [][(budget' = budget - 1 /\ ev'.kind = "configmap") =>
           \A k \in DOMAIN virtualServers \ DOMAIN virtualServers' :
               \E cm \in Carried(ev') :
                   virtualServers[k].VirtualServerName = NameFor(cm.Name)]_vars

====
